---- MODULE Spec2Model ----
(***************************************************************************)
(* A model of the posting-helper bot (src/bot.py): the persistent store,   *)
(* the per-user template tree, the index addressing of browse and delete   *)
(* tokens, the two composition flows and the admin gate.                   *)
(*                                                                         *)
(* Python values are tagged records, dictionaries keep their insertion     *)
(* order (a sequence of key/value items), strings are TLA+ strings and     *)
(* the string functions the code calls (strip, startswith, lower, split,   *)
(* int, str) are computed character by character.                          *)
(***************************************************************************)
EXTENDS Integers, Sequences, FiniteSets, TLC

(***************************************************************************)
(* Strings                                                                 *)
(***************************************************************************)

\* The characters the model's strings are made of, in code point order.
Ascii == " #-/0123456789:ABCDEFGHIJKLMNOPQRSTUVWXYZ_abcdefghijklmnopqrstuvwxyz"

Digits == "0123456789"

UpperCase == "ABCDEFGHIJKLMNOPQRSTUVWXYZ"

LowerCase == "abcdefghijklmnopqrstuvwxyz"

CharAt(s, i) == SubSeq(s, i, i)

\* The position of character c in string s, 0 when it is not there.
IndexIn(c, s) ==
    IF \E i \in 1..Len(s) : CharAt(s, i) = c
    THEN CHOOSE i \in 1..Len(s) : CharAt(s, i) = c
    ELSE 0

\* str.startswith
StartsWith(s, p) == Len(s) >= Len(p) /\ SubSeq(s, 1, Len(p)) = p

\* str.lstrip, str.rstrip, str.strip with no argument: white space goes.
RECURSIVE LStrip(_)
LStrip(s) ==
    IF Len(s) > 0 /\ CharAt(s, 1) = " " THEN LStrip(SubSeq(s, 2, Len(s))) ELSE s

RECURSIVE RStrip(_)
RStrip(s) ==
    IF Len(s) > 0 /\ CharAt(s, Len(s)) = " "
    THEN RStrip(SubSeq(s, 1, Len(s) - 1))
    ELSE s

Strip(s) == RStrip(LStrip(s))

\* str.lstrip(ch)
RECURSIVE LStripChar(_, _)
LStripChar(s, ch) ==
    IF Len(s) > 0 /\ CharAt(s, 1) = ch
    THEN LStripChar(SubSeq(s, 2, Len(s)), ch)
    ELSE s

\* str.isdigit: non-empty and every character a digit.
IsDigit(s) ==
    /\ Len(s) > 0
    /\ \A i \in 1..Len(s) : IndexIn(CharAt(s, i), Digits) > 0

\* str.lower
LowerChar(c) ==
    IF IndexIn(c, UpperCase) > 0 THEN CharAt(LowerCase, IndexIn(c, UpperCase)) ELSE c

RECURSIVE Lower(_)
Lower(s) ==
    IF Len(s) = 0 THEN "" ELSE LowerChar(CharAt(s, 1)) \o Lower(SubSeq(s, 2, Len(s)))

\* Python's order of strings: by code point, a proper prefix first.
RECURSIVE StrLess(_, _)
StrLess(a, b) ==
    IF Len(b) = 0 THEN FALSE
    ELSE IF Len(a) = 0 THEN TRUE
    ELSE LET ca == IndexIn(CharAt(a, 1), Ascii)
             cb == IndexIn(CharAt(b, 1), Ascii)
         IN  IF ca # cb THEN ca < cb
             ELSE StrLess(SubSeq(a, 2, Len(a)), SubSeq(b, 2, Len(b)))

\* str.split(sep) for a one-character separator: every field, empty ones too.
RECURSIVE SplitFrom(_, _, _)
SplitFrom(s, sep, cur) ==
    IF Len(s) = 0 THEN <<cur>>
    ELSE IF CharAt(s, 1) = sep
         THEN <<cur>> \o SplitFrom(SubSeq(s, 2, Len(s)), sep, "")
         ELSE SplitFrom(SubSeq(s, 2, Len(s)), sep, cur \o CharAt(s, 1))

Split(s, sep) == SplitFrom(s, sep, "")

\* str.split(sep, 1): at most one split.
Split1(s, sep) ==
    IF \E i \in 1..Len(s) : CharAt(s, i) = sep
    THEN LET i == CHOOSE j \in 1..Len(s) :
                     /\ CharAt(s, j) = sep
                     /\ \A k \in 1..(j - 1) : CharAt(s, k) # sep
         IN  <<SubSeq(s, 1, i - 1), SubSeq(s, i + 1, Len(s))>>
    ELSE <<s>>

\* int(s) succeeds on an optional sign and digits (the surrounding white
\* space int() also accepts never occurs in a token).
IsInt(s) ==
    LET body == IF Len(s) > 0 /\ CharAt(s, 1) = "-" THEN SubSeq(s, 2, Len(s)) ELSE s
    IN  IsDigit(body)

RECURSIVE DigitsValue(_)
DigitsValue(s) ==
    IF Len(s) = 0 THEN 0
    ELSE 10 * DigitsValue(SubSeq(s, 1, Len(s) - 1))
         + (IndexIn(CharAt(s, Len(s)), Digits) - 1)

ToInt(s) ==
    IF CharAt(s, 1) = "-" THEN 0 - DigitsValue(SubSeq(s, 2, Len(s))) ELSE DigitsValue(s)

\* str(n)
Str(n) == ToString(n)

(***************************************************************************)
(* Python values                                                           *)
(***************************************************************************)

PyNone == [tag |-> "none"]

PyStr(s) == [tag |-> "str", s |-> s]

PyInt(n) == [tag |-> "int", n |-> n]

PyList(es) == [tag |-> "list", es |-> es]

\* A dict: its items in insertion order, each [k |-> key, v |-> value].
PyDict(items) == [tag |-> "dict", items |-> items]

EmptyDict == PyDict(<<>>)

IsDict(v) == v.tag = "dict"

\* isinstance(v, dict) and the truth value of a dict
NonEmptyDict(v) == IsDict(v) /\ Len(v.items) > 0

DictKeys(d) == [i \in 1..Len(d.items) |-> d.items[i].k]

DictHas(d, k) == \E i \in 1..Len(d.items) : d.items[i].k = k

DictPos(d, k) == CHOOSE i \in 1..Len(d.items) : d.items[i].k = k

\* d[k]
DictGet(d, k) == d.items[DictPos(d, k)].v

\* d.get(k, default)
DictGetOr(d, k, default) == IF DictHas(d, k) THEN DictGet(d, k) ELSE default

\* d[k] = v: a present key keeps its place, a new key goes last.
DictSet(d, k, v) ==
    IF DictHas(d, k)
    THEN PyDict([d.items EXCEPT ![DictPos(d, k)] = [k |-> k, v |-> v]])
    ELSE PyDict(Append(d.items, [k |-> k, v |-> v]))

\* d.setdefault(k, default), as the dict it leaves
DictSetDefault(d, k, default) == IF DictHas(d, k) THEN d ELSE DictSet(d, k, default)

\* del d[k], for a present key
DictDel(d, k) ==
    LET p == DictPos(d, k)
    IN  PyDict(SubSeq(d.items, 1, p - 1) \o SubSeq(d.items, p + 1, Len(d.items)))

\* sorted(keys, key=str.lower): a stable sort, so keys equal up to case stay
\* in the order given.
RECURSIVE InsertByLower(_, _)
InsertByLower(sorted, x) ==
    IF Len(sorted) = 0 THEN <<x>>
    ELSE IF StrLess(Lower(x), Lower(Head(sorted)))
         THEN <<x>> \o sorted
         ELSE <<Head(sorted)>> \o InsertByLower(Tail(sorted), x)

RECURSIVE SortedByLower(_)
SortedByLower(keys) ==
    IF Len(keys) = 0 THEN <<>>
    ELSE InsertByLower(SortedByLower(SubSeq(keys, 1, Len(keys) - 1)), keys[Len(keys)])

\* A template entry as finalize_template and m_import_file write it.
Entry(text, photo, buttons) ==
    PyDict(<< [k |-> "text", v |-> text],
              [k |-> "photo", v |-> photo],
              [k |-> "buttons", v |-> buttons] >>)

\* A button of a template: {"t": label, "u": url}.
TplButton(t, u) == PyDict(<< [k |-> "t", v |-> t], [k |-> "u", v |-> u] >>)

(***************************************************************************)
(* State                                                                   *)
(***************************************************************************)

VARIABLES
    OWNER_ID,         \* the configured owner id, 0 when none is configured
    storage,          \* the document in memory
    disk,             \* the content of storage.json
    audit,            \* audit.log: the number of lines and the last lines
    fsm,              \* per user: the FSM state and the FSM data
    user_drafts,      \* per user: <<>> or <<the post draft>>
    pending_deletes,  \* per user: <<>> or <<the flat list of the delete menu>>
    issued,           \* per user: the indexed tokens of the keyboards shown
    out,              \* the last event: who, what, which handler, the answer
    saveFailures,     \* how many saves have failed
    boot,             \* the startup sequence: its position and its input
    fs,               \* the storage directory and save_storage's position
    scenario,         \* the part of the bot the surroundings exercise
    session,          \* per user: the buttons accepted since m:add, by row
    tasks             \* per user: the handler the event loop has started

vars == << OWNER_ID, storage, disk, audit, fsm, user_drafts, pending_deletes,
           issued, out, saveFailures, boot, fs, scenario, session, tasks >>

\* The users of the model: the owner, an admin, and one who is neither.
OwnerUser == 10001

AdminUser == 10002

Stranger == AdminUser + 1

Users == {OwnerUser, AdminUser, Stranger}

\* A file that holds a document, a file that does not parse, no file.
FileDoc(doc) == [kind |-> "json", doc |-> doc]

FileCorrupt == [kind |-> "corrupt"]

FileMissing == [kind |-> "missing"]

\* A file that parses to a value that is no object.
FileOther == [kind |-> "other"]

DEFAULT_STORAGE ==
    [admins |-> <<>>, channels |-> EmptyDict, channel_titles |-> EmptyDict,
     templates |-> EmptyDict]

\* FSM states
NoState == "none"

\* FSM data. An absent key and a key holding None or an empty list read the
\* same through data.get(key) / data.get(key, []), so each optional key is
\* <<>> or <<value>>, and row and matrix are the lists themselves.
\* rowInMatrix counts the trailing elements of matrix that are the row
\* object itself, and matrixIn lists the templates of storage whose
\* "buttons" is the matrix object itself (both arise only when a save
\* fails after matrix.append(row)): lists are shared, not copied.
EmptyData ==
    [uid |-> 0, game |-> <<>>, cheat |-> <<>>, name |-> <<>>, text |-> <<>>,
     photo |-> <<>>, btn_text |-> <<>>, row |-> <<>>, matrix |-> <<>>,
     rowInMatrix |-> 0, matrixIn |-> {}]

ClearedFsm == [state |-> NoState, data |-> EmptyData]

\* Draft()
NewDraft == [text |-> "", buttons |-> <<>>, photo |-> <<>>]

\* Button(t, u)
Button(t, u) == [t |-> t, u |-> u]

NoOut == [uid |-> 0, kind |-> "none", data |-> "", photo |-> <<>>, handler |-> "none",
          resp |-> "none", sends |-> <<>>, shown |-> <<>>, lookup |-> <<>>,
          doc |-> <<>>]

\* The state as one record, so that a handler is a function of it.
World ==
    [OWNER_ID |-> OWNER_ID, storage |-> storage, disk |-> disk, audit |-> audit,
     fsm |-> fsm, user_drafts |-> user_drafts, pending_deletes |-> pending_deletes,
     issued |-> issued, saveFailures |-> saveFailures]

\* What a handler leaves: the state, its name, its answer, the transport
\* sends it issued to a channel.
Result(w, handler, resp) ==
    [w |-> w, handler |-> handler, resp |-> resp, sends |-> <<>>, shown |-> <<>>,
     lookup |-> <<>>]

ResultSent(w, handler, resp, sends) ==
    [w |-> w, handler |-> handler, resp |-> resp, sends |-> sends, shown |-> <<>>,
     lookup |-> <<>>]

\* shown: the template (game, cheat, name) the handler displayed or sent.
ResultShown(w, handler, resp, sends, shown) ==
    [w |-> w, handler |-> handler, resp |-> resp, sends |-> sends, shown |-> shown,
     lookup |-> <<>>]

\* lookup: what the transport's admin lookups of the event reported.
ResultLooked(r, lookup) == [r EXCEPT !.lookup = lookup]

(***************************************************************************)
(* Store and audit                                                         *)
(***************************************************************************)

\* save_storage as the handlers see it: the file is replaced by the document
\* in memory, or the call raises and the file is as it was.
save_storage(w, ok) ==
    IF ok THEN [w EXCEPT !.disk = FileDoc(w.storage)]
    ELSE [w EXCEPT !.saveFailures = @ + 1]

\* How many of its last lines the model keeps of audit.log.
AuditTail == 1

LastLines(lines, n) ==
    IF Len(lines) <= n THEN lines ELSE SubSeq(lines, Len(lines) - n + 1, Len(lines))

EmptyAudit == [count |-> 0, tail |-> <<>>]

\* log_action: one line more, the acting user and the action.
log_action(w, uid, act, arg) ==
    [w EXCEPT !.audit =
        [count |-> @.count + 1,
         tail |-> LastLines(Append(@.tail, [uid |-> uid, act |-> act, arg |-> arg]),
                            AuditTail)]]

\* tpls_of(uid) creates the user's tree in memory when it is not there.
WithTpls(w, uid) ==
    [w EXCEPT !.storage.templates = DictSetDefault(@, Str(uid), EmptyDict)]

tpls_of(w, uid) == DictGetOr(w.storage.templates, Str(uid), EmptyDict)

\* tpls_of(uid) = tree, for a tree changed in place
SetTpls(w, uid, tree) ==
    [w EXCEPT !.storage.templates = DictSet(@, Str(uid), tree)]

(***************************************************************************)
(* Access control                                                          *)
(***************************************************************************)

\* is_owner taken for "is in the admin list".
is_owner_Admin(w, uid) == \E i \in 1..Len(w.storage.admins) : w.storage.admins[i] = uid

is_owner(w, uid) == w.OWNER_ID # 0 /\ uid = w.OWNER_ID

is_admin(w, uid) == \E i \in 1..Len(w.storage.admins) : w.storage.admins[i] = uid

admin_only(w, uid) == is_owner(w, uid) \/ is_admin(w, uid)

(***************************************************************************)
(* FSM context                                                             *)
(***************************************************************************)

\* state.set_state
SetState(w, uid, st) == [w EXCEPT !.fsm[uid].state = st]

\* state.clear(): the state and the data
ClearState(w, uid) == [w EXCEPT !.fsm[uid] = ClearedFsm]

StateOf(w, uid) == w.fsm[uid].state

DataOf(w, uid) == w.fsm[uid].data

\* Option helpers: m.text or ""
OrEmpty(opt) == IF Len(opt) = 0 THEN "" ELSE opt[1]

(***************************************************************************)
(* Post draft flow                                                         *)
(*                                                                         *)
(* A message m is [text, photo, doc]: each <<>> or <<value>>.  m.html_text *)
(* is m.text for the texts of the model, which carry no markup.  Replies   *)
(* to the user (answer, edit_text) are taken to be delivered.              *)
(***************************************************************************)

\* user_drafts.get(uid, Draft())
DraftOf(w, uid) ==
    IF Len(w.user_drafts[uid]) = 0 THEN NewDraft ELSE w.user_drafts[uid][1]

SetDraft(w, uid, d) == [w EXCEPT !.user_drafts[uid] = <<d>>]

\* menu:back
menu_back(w, uid) == Result(ClearState(w, uid), "menu_back", "main_menu")

\* menu:create
create_post(w, uid) ==
    Result(SetState(SetDraft(w, uid, NewDraft), uid, "WAIT_TEXT"),
           "create_post", "ask_text")

\* a message in WAIT_TEXT
get_post_text(w, uid, m) ==
    LET d == [DraftOf(w, uid) EXCEPT !.text = OrEmpty(m.text)]
    IN  Result(ClearState(SetDraft(w, uid, d), uid), "get_post_text", "text_saved")

\* a photo message in WAIT_PHOTO
add_photo(w, uid, m) ==
    LET d == [DraftOf(w, uid) EXCEPT !.photo = m.photo]
    IN  Result(ClearState(SetDraft(w, uid, d), uid), "add_photo", "photo_saved")

\* a message in ADD_BUTTON_TEXT
add_btn_text(w, uid, m) ==
    LET w1 == [w EXCEPT !.fsm[uid].data.btn_text = <<OrEmpty(m.text)>>]
    IN  Result(SetState(w1, uid, "ADD_BUTTON_URL"), "add_btn_text", "ask_url")

\* The URL test of add_btn_url and m_btn_url, on the stripped text.
UrlAccepted(url) == StartsWith(url, "http://") \/ StartsWith(url, "https://")

\* The text as sent, not stripped.
UrlOf_Raw(m) == OrEmpty(m.text)

\* url = (m.text or "").strip(): the text both URL handlers test and store
UrlOf(m) == Strip(OrEmpty(m.text))

\* d.buttons[-1].append(b), after "if not d.buttons: d.buttons.append([])"
AppendToLastRow(buttons, b) ==
    LET rows == IF Len(buttons) = 0 THEN << <<>> >> ELSE buttons
    IN  [rows EXCEPT ![Len(rows)] = Append(@, b)]

\* a message in ADD_BUTTON_URL
add_btn_url(w, uid, m) ==
    LET url == UrlOf(m)
    IN  IF ~UrlAccepted(url)
        THEN Result(w, "add_btn_url", "bad_url")
        ELSE LET text == OrEmpty(DataOf(w, uid).btn_text)
                 d == [DraftOf(w, uid) EXCEPT
                          !.buttons = AppendToLastRow(@, Button(text, url))]
             IN  Result(ClearState(SetDraft(w, uid, d), uid),
                        "add_btn_url", "button_added")

\* One transport send to a channel, and whether the transport accepted it.
Send(ch, text, photo, buttons, ok) ==
    [chat |-> ch, text |-> text, photo |-> photo, buttons |-> buttons, ok |-> ok]

\* storage.get("channels", {}).get(str(uid)); 0 stands for None
ChannelOf(w, uid) ==
    LET v == DictGetOr(w.storage.channels, Str(uid), PyNone)
    IN  IF v.tag = "int" THEN v.n ELSE 0

\* The audit line written before the outcome of the send is known.
send_post_to_channel_LogsFirst(w, uid, d, send_ok) ==
    LET ch == ChannelOf(w, uid)
        snd == << Send(ch, d.text, d.photo, d.buttons, send_ok) >>
    IN  IF ch = 0 THEN Result(w, "compose_actions", "no_channel")
        ELSE ResultSent(log_action(w, uid, "send_draft", <<>>), "compose_actions",
                        IF send_ok THEN "sent" ELSE "send_error", snd)

\* send_post_to_channel(c, d)
send_post_to_channel(w, uid, d, send_ok) ==
    LET ch == ChannelOf(w, uid)
        snd == << Send(ch, d.text, d.photo, d.buttons, send_ok) >>
    IN  IF ch = 0 THEN Result(w, "compose_actions", "no_channel")
        ELSE IF send_ok
             THEN ResultSent(log_action(w, uid, "send_draft", <<>>),
                             "compose_actions", "sent", snd)
             ELSE ResultSent(w, "compose_actions", "send_error", snd)

\* compose:<action>
compose_actions(w, uid, data, send_ok) ==
    LET d == DraftOf(w, uid)
        w0 == SetDraft(w, uid, d)
        action == Split(data, ":")[2]
    IN  CASE action = "add_btn" ->
               Result(SetState(w0, uid, "ADD_BUTTON_TEXT"), "compose_actions", "ask_label")
          [] action = "add_row" ->
               Result(SetDraft(w0, uid, [d EXCEPT !.buttons = Append(@, <<>>)]),
                      "compose_actions", "row_added")
          [] action = "add_photo" ->
               Result(SetState(w0, uid, "WAIT_PHOTO"), "compose_actions", "ask_photo")
          [] action = "del_photo" ->
               Result(SetDraft(w0, uid, [d EXCEPT !.photo = <<>>]),
                      "compose_actions", "photo_deleted")
          [] action = "preview" -> Result(w0, "compose_actions", "preview")
          [] action = "send" -> send_post_to_channel(w0, uid, d, send_ok)
          [] OTHER -> Result(w0, "compose_actions", "answered")

(***************************************************************************)
(* Template tree                                                           *)
(***************************************************************************)

\* Whether tree[g][c][n] exists.
TreeHas(tree, g, c, n) ==
    /\ DictHas(tree, g)
    /\ DictHas(DictGet(tree, g), c)
    /\ DictHas(DictGet(DictGet(tree, g), c), n)

TreeGet(tree, g, c, n) == DictGet(DictGet(DictGet(tree, g), c), n)

\* tree.setdefault(g, {}).setdefault(c, {})[n] = entry
TreePut(tree, g, c, n, entry) ==
    LET t1 == DictSetDefault(tree, g, EmptyDict)
        gd == DictSetDefault(DictGet(t1, g), c, EmptyDict)
        cd == DictSet(DictGet(gd, c), n, entry)
    IN  DictSet(t1, g, DictSet(gd, c, cd))

\* The button matrix of the build flow as the value stored in an entry.
ButtonsValue(matrix) == PyList([i \in 1..Len(matrix) |-> PyList(matrix[i])])

\* The matrix list is one object: the entries that hold it (matrixIn) show
\* every later append to it.
RECURSIVE SyncTree(_, _, _)
SyncTree(tree, paths, matrix) ==
    IF paths = {} THEN tree
    ELSE LET p == CHOOSE q \in paths : TRUE
             t1 == IF TreeHas(tree, p[1], p[2], p[3])
                   THEN TreePut(tree, p[1], p[2], p[3],
                                DictSet(TreeGet(tree, p[1], p[2], p[3]), "buttons",
                                        ButtonsValue(matrix)))
                   ELSE tree
         IN  SyncTree(t1, paths \ {p}, matrix)

SyncMatrix(w, uid) ==
    LET data == DataOf(w, uid)
    IN  IF data.matrixIn = {} THEN w
        ELSE SetTpls(w, data.uid,
                     SyncTree(tpls_of(w, data.uid), data.matrixIn, data.matrix))

(***************************************************************************)
(* Template build flow                                                     *)
(***************************************************************************)

\* m:add. The FSM data of an earlier session stays: only uid is written.
m_add_start(w, uid) ==
    LET w1 == SetState(w, uid, "ADD_GAME")
    IN  Result([w1 EXCEPT !.fsm[uid].data.uid = uid], "m_add_start", "ask_game")

m_add_game(w, uid, m) ==
    LET w1 == [w EXCEPT !.fsm[uid].data.game = <<Strip(OrEmpty(m.text))>>]
    IN  Result(SetState(w1, uid, "ADD_CHEAT"), "m_add_game", "ask_cheat")

m_add_cheat(w, uid, m) ==
    LET w1 == [w EXCEPT !.fsm[uid].data.cheat = <<Strip(OrEmpty(m.text))>>]
    IN  Result(SetState(w1, uid, "ADD_NAME"), "m_add_cheat", "ask_name")

m_add_name(w, uid, m) ==
    LET w1 == [w EXCEPT !.fsm[uid].data.name = <<Strip(OrEmpty(m.text))>>]
    IN  Result(SetState(w1, uid, "ADD_TEXT"), "m_add_name", "ask_text")

m_add_text(w, uid, m) ==
    LET w1 == [w EXCEPT !.fsm[uid].data.text = <<OrEmpty(m.text)>>]
    IN  Result(SetState(w1, uid, "ADD_PHOTO"), "m_add_text", "ask_photo")

m_add_photo(w, uid, m) ==
    IF Len(m.photo) > 0
    THEN Result(SetState([w EXCEPT !.fsm[uid].data.photo = m.photo], uid, "ADD_BTN_TEXT"),
                "m_add_photo", "ask_label")
    ELSE IF Strip(OrEmpty(m.text)) = "0"
    THEN Result(SetState([w EXCEPT !.fsm[uid].data.photo = <<>>], uid, "ADD_BTN_TEXT"),
                "m_add_photo", "ask_label")
    ELSE Result(w, "m_add_photo", "ask_photo_again")

\* finalize_template with the audit line written before the save: the line
\* stays when the save fails.
finalize_template_LogsFirst(w, uid, matrix, shared, handler, save_ok) ==
    LET data == DataOf(w, uid)
    IN  IF data.uid = 0 \/ Len(data.game) = 0 \/ Len(data.cheat) = 0
           \/ Len(data.name) = 0 \/ Len(data.text) = 0
        THEN Result(w, handler, "unhandled:KeyError")
        ELSE
        LET owner == data.uid
            path == << data.game[1], data.cheat[1], data.name[1] >>
            photo == IF Len(data.photo) = 0 THEN PyNone ELSE PyStr(data.photo[1])
            entry == Entry(PyStr(data.text[1]), photo, ButtonsValue(matrix))
            w1 == SetTpls(w, owner,
                          TreePut(tpls_of(w, owner), path[1], path[2], path[3], entry))
            w2 == [w1 EXCEPT !.fsm[uid].data.matrixIn =
                                 IF shared THEN @ \cup {path} ELSE @ \ {path}]
            w3 == save_storage(log_action(w2, owner, "save_template", path), save_ok)
        IN  IF ~save_ok THEN Result(w3, handler, "unhandled:OSError")
            ELSE Result(ClearState(w3, uid), handler, "template_saved")

\* finalize_template(state, matrix): shared says that matrix is the list held
\* in the FSM data (mt:save) and not a new one (the "0" of m_btn_text).
finalize_template(w, uid, matrix, shared, handler, save_ok) ==
    LET data == DataOf(w, uid)
    IN  IF data.uid = 0 \/ Len(data.game) = 0 \/ Len(data.cheat) = 0
           \/ Len(data.name) = 0 \/ Len(data.text) = 0
        THEN Result(w, handler, "unhandled:KeyError")
        ELSE
        LET owner == data.uid
            path == << data.game[1], data.cheat[1], data.name[1] >>
            photo == IF Len(data.photo) = 0 THEN PyNone ELSE PyStr(data.photo[1])
            entry == Entry(PyStr(data.text[1]), photo, ButtonsValue(matrix))
            w1 == SetTpls(w, owner,
                          TreePut(tpls_of(w, owner), path[1], path[2], path[3], entry))
            w2 == [w1 EXCEPT !.fsm[uid].data.matrixIn =
                                 IF shared THEN @ \cup {path} ELSE @ \ {path}]
            w3 == save_storage(w2, save_ok)
        IN  IF ~save_ok THEN Result(w3, handler, "unhandled:OSError")
            ELSE Result(ClearState(log_action(w3, owner, "save_template", path), uid),
                        handler, "template_saved")

\* a message in ADD_BTN_TEXT
m_btn_text(w, uid, m, save_ok) ==
    LET txt == Strip(OrEmpty(m.text))
    IN  IF txt = "0" THEN finalize_template(w, uid, <<>>, FALSE, "m_btn_text", save_ok)
        ELSE Result(SetState([w EXCEPT !.fsm[uid].data.btn_text = <<txt>>],
                             uid, "ADD_BTN_URL"),
                    "m_btn_text", "ask_url")

\* row.append(b) on the row object: the elements of matrix that are this
\* object grow with it.
RowAppend(data, b) ==
    LET row == Append(data.row, b)
        n == Len(data.matrix)
    IN  [data EXCEPT !.row = row,
                     !.matrix = [i \in 1..n |->
                                   IF i > n - data.rowInMatrix THEN row ELSE data.matrix[i]]]

\* matrix.append(row) on the matrix object
MatrixAppendRow(data) ==
    [data EXCEPT !.matrix = Append(@, data.row), !.rowInMatrix = @ + 1]

\* a message in ADD_BTN_URL
m_btn_url(w, uid, m) ==
    LET url == UrlOf(m)
    IN  IF ~UrlAccepted(url)
        THEN Result(w, "m_btn_url", "bad_url")
        ELSE LET data == DataOf(w, uid)
                 label == IF Len(data.btn_text) = 0 THEN PyNone ELSE PyStr(data.btn_text[1])
                 w1 == [w EXCEPT !.fsm[uid].data = RowAppend(data, TplButton(label, PyStr(url)))]
             IN  Result(SetState(SyncMatrix(w1, uid), uid, "BTN_MENU"),
                        "m_btn_url", "button_menu")

\* mt:<action> in BTN_MENU
m_btn_menu(w, uid, token, save_ok) ==
    LET data == DataOf(w, uid)
    IN  CASE token = "mt:add_in_row" ->
               Result(SetState(w, uid, "ADD_BTN_TEXT"), "m_btn_menu", "ask_label")
          [] token = "mt:new_row" ->
               LET w1 == IF Len(data.row) > 0
                         THEN LET wa == SyncMatrix(
                                         [w EXCEPT !.fsm[uid].data = MatrixAppendRow(data)], uid)
                              IN  [wa EXCEPT !.fsm[uid].data.row = <<>>,
                                             !.fsm[uid].data.rowInMatrix = 0]
                         ELSE w
               IN  Result(SetState(w1, uid, "ADD_BTN_TEXT"), "m_btn_menu", "ask_label")
          [] token = "mt:save" ->
               LET w1 == IF Len(data.row) > 0
                         THEN SyncMatrix([w EXCEPT !.fsm[uid].data = MatrixAppendRow(data)], uid)
                         ELSE w
               IN  finalize_template(w1, uid, DataOf(w1, uid).matrix, TRUE,
                                     "m_btn_menu", save_ok)
          [] OTHER -> Result(w, "m_btn_menu", "answered")

\* menu:manage
manage_root(w, uid) == Result(w, "manage_root", "manage_menu")

(***************************************************************************)
(* Index addressing: listings, tokens, browse                              *)
(***************************************************************************)

list_games(w, uid) == SortedByLower(DictKeys(tpls_of(w, uid)))

list_cheats(w, uid, gidx) ==
    LET games == list_games(w, uid)
    IN  IF gidx < 0 \/ gidx >= Len(games) THEN <<>>
        ELSE SortedByLower(DictKeys(DictGet(tpls_of(w, uid), games[gidx + 1])))

list_names(w, uid, gidx, cidx) ==
    LET games == list_games(w, uid)
    IN  IF gidx < 0 \/ gidx >= Len(games) THEN <<>>
        ELSE LET game == games[gidx + 1]
                 cheats == list_cheats(w, uid, gidx)
             IN  IF cidx < 0 \/ cidx >= Len(cheats) THEN <<>>
                 ELSE SortedByLower(DictKeys(
                          DictGet(DictGet(tpls_of(w, uid), game), cheats[cidx + 1])))

\* The keyboards: the indexed tokens each one carries.
templates_menu(w, uid) ==
    { "tpl:g#" \o Str(i) : i \in 0..(Len(list_games(w, uid)) - 1) }

cheats_menu(w, uid, gidx) ==
    { "tpl:c#" \o Str(gidx) \o "#" \o Str(i) :
          i \in 0..(Len(list_cheats(w, uid, gidx)) - 1) }

names_menu(w, uid, gidx, cidx) ==
    { "tpl:n#" \o Str(gidx) \o "#" \o Str(cidx) \o "#" \o Str(i) :
          i \in 0..(Len(list_names(w, uid, gidx, cidx)) - 1) }
    \cup { "tpl:back:cheats#" \o Str(gidx) }

template_view_kb_by_idx(gidx, cidx, nidx) ==
    LET t == Str(gidx) \o "#" \o Str(cidx) \o "#" \o Str(nidx)
    IN  { "tpl:prev#" \o t, "tpl:send#" \o t,
          "tpl:back:templates#" \o Str(gidx) \o "#" \o Str(cidx) }

\* The surroundings keep, per user, the keyboard last shown of each family:
\* the browsing menus (tpl:...) and the deletion menu (m:del...).
Family(token) == StartsWith(token, "tpl:")

Issue(w, uid, tokens) ==
    [w EXCEPT !.issued[uid] =
        { t \in @ : \A n \in tokens : Family(t) # Family(n) } \cup tokens]

\* int(c.data.split("#")[i]) for the fields named: <<>> when one is missing
\* or no integer, else the integers (choose_game, back_to_cheats,
\* back_to_templates: further fields are ignored).
FieldInts(data, count) ==
    LET parts == Split(data, "#")
    IN  IF Len(parts) < count + 1 THEN <<>>
        ELSE IF \E i \in 2..(count + 1) : ~IsInt(parts[i]) THEN <<>>
        ELSE [i \in 1..count |-> ToInt(parts[i + 1])]

\* _, payload = c.data.split("#", 1); a, b(, c) = payload.split("#"); int(..)
\* <<>> when the unpacking or an int() raises.
PayloadInts(data, count) ==
    LET parts == Split1(data, "#")
    IN  IF Len(parts) # 2 THEN <<>>
        ELSE LET fields == Split(parts[2], "#")
             IN  IF Len(fields) # count THEN <<>>
                 ELSE IF \E i \in 1..count : ~IsInt(fields[i]) THEN <<>>
                 ELSE [i \in 1..count |-> ToInt(fields[i])]

\* seq[i] in Python: a negative index counts from the end; IndexError when
\* out of range.
PyIndexOk(seq, i) == i < Len(seq) /\ i >= 0 - Len(seq)

PyIndex(seq, i) == IF i >= 0 THEN seq[i + 1] ELSE seq[Len(seq) + i + 1]

\* menu:ready
ready_root(w, uid) ==
    LET w1 == WithTpls(w, uid)
    IN  IF Len(tpls_of(w1, uid).items) = 0 THEN Result(w1, "ready_root", "no_templates")
        ELSE Result(Issue(w1, uid, templates_menu(w1, uid)), "ready_root", "games_menu")

\* tpl:back:games
back_to_games(w, uid) ==
    LET w1 == WithTpls(w, uid)
    IN  Result(Issue(w1, uid, templates_menu(w1, uid)), "back_to_games", "games_menu")

\* tpl:g#<g> and tpl:back:cheats#<g>
choose_game(w, uid, data, handler) ==
    LET ix == FieldInts(data, 1)
    IN  IF Len(ix) = 0 THEN Result(w, handler, "malformed")
        ELSE LET w1 == WithTpls(w, uid)
             IN  Result(Issue(w1, uid, cheats_menu(w1, uid, ix[1])), handler, "cheats_menu")

\* tpl:c#<g>#<c>
choose_cheat(w, uid, data) ==
    LET ix == PayloadInts(data, 2)
    IN  IF Len(ix) = 0 THEN Result(w, "choose_cheat", "malformed")
        ELSE LET w1 == WithTpls(w, uid)
             IN  Result(Issue(w1, uid, names_menu(w1, uid, ix[1], ix[2])),
                        "choose_cheat", "names_menu")

\* tpl:back:templates#<g>#<c>
back_to_templates(w, uid, data) ==
    LET ix == FieldInts(data, 2)
    IN  IF Len(ix) = 0 THEN Result(w, "back_to_templates", "malformed")
        ELSE LET w1 == WithTpls(w, uid)
             IN  Result(Issue(w1, uid, names_menu(w1, uid, ix[1], ix[2])),
                        "back_to_templates", "names_menu")

\* t.get(key) of a stored entry
EntryField(t, key) == DictGetOr(t, key, PyNone)

\* The common part of choose_name, tpl_preview and tpl_send: from the token
\* to the entry.  what: "view", "preview" or "send".
resolve_template(w, uid, data, handler, what, send_ok) ==
    LET ix == PayloadInts(data, 3)
    IN  IF Len(ix) = 0 THEN Result(w, handler, "malformed")
        ELSE
        LET w1 == WithTpls(w, uid)
            games == list_games(w1, uid)
            cheats == list_cheats(w1, uid, ix[1])
            names == list_names(w1, uid, ix[1], ix[2])
        IN  IF Len(games) = 0 \/ Len(cheats) = 0 \/ Len(names) = 0
            THEN Result(w1, handler, "not_found")
            ELSE IF ~PyIndexOk(names, ix[3])
            THEN Result(w1, handler, "unhandled:IndexError")
            ELSE
            LET game == PyIndex(games, ix[1])
                cheat == PyIndex(cheats, ix[2])
                name == PyIndex(names, ix[3])
                t == TreeGet(tpls_of(w1, uid), game, cheat, name)
                path == << game, cheat, name >>
                snd == << Send(ChannelOf(w1, uid), EntryField(t, "text"),
                               EntryField(t, "photo"), EntryField(t, "buttons"), send_ok) >>
            IN  CASE what = "view" ->
                       ResultShown(Issue(w1, uid,
                                         template_view_kb_by_idx(ix[1], ix[2], ix[3])),
                                   handler, "template_view", <<>>, path)
                  [] what = "preview" ->
                       ResultShown(w1, handler, "preview", <<>>, path)
                  [] OTHER ->
                       IF send_ok
                       THEN ResultShown(log_action(w1, uid, "send_template", path),
                                        handler, "sent", snd, path)
                       ELSE ResultShown(w1, handler, "send_error", snd, path)

\* tpl:n#<g>#<c>#<n>
choose_name(w, uid, data) == resolve_template(w, uid, data, "choose_name", "view", TRUE)

\* tpl:prev#<g>#<c>#<n>
tpl_preview(w, uid, data) == resolve_template(w, uid, data, "tpl_preview", "preview", TRUE)

\* tpl:send#<g>#<c>#<n>
tpl_send(w, uid, data, send_ok) ==
    IF ChannelOf(w, uid) = 0 THEN Result(w, "tpl_send", "no_channel")
    ELSE resolve_template(w, uid, data, "tpl_send", "send", send_ok)

(***************************************************************************)
(* Delete flow                                                             *)
(***************************************************************************)

PAGE_SIZE == 20

\* _collect_templates_flat: every (game, cheat, name), in dict order.
RECURSIVE FlatNames(_, _, _)
FlatNames(g, ch, names) ==
    IF Len(names) = 0 THEN <<>>
    ELSE << <<g, ch, Head(names)>> >> \o FlatNames(g, ch, Tail(names))

RECURSIVE FlatCheats(_, _)
FlatCheats(g, items) ==
    IF Len(items) = 0 THEN <<>>
    ELSE FlatNames(g, Head(items).k, DictKeys(Head(items).v)) \o FlatCheats(g, Tail(items))

RECURSIVE FlatGames(_)
FlatGames(items) ==
    IF Len(items) = 0 THEN <<>>
    ELSE FlatCheats(Head(items).k, Head(items).v.items) \o FlatGames(Tail(items))

collect_templates_flat(w, uid) == FlatGames(tpls_of(w, uid).items)

Max(a, b) == IF a > b THEN a ELSE b

Min(a, b) == IF a < b THEN a ELSE b

\* pending_deletes.get(uid, [])
PendingOf(w, uid) ==
    IF Len(w.pending_deletes[uid]) = 0 THEN <<>> ELSE w.pending_deletes[uid][1]

\* The requested page taken as it is, without the clamp.
ClampPage_AsAsked(total, page) == page

\* The page _delete_menu_page shows for a requested page.
ClampPage(total, page) ==
    LET max_page == IF total > 0 THEN Max(0, (total - 1) \div PAGE_SIZE) ELSE 0
    IN  Max(0, Min(page, max_page))

\* _delete_menu_page: the tokens of the page, of its neighbours, of the page
\* label and of the exit.
delete_menu_page(w, uid, page) ==
    LET total == Len(PendingOf(w, uid))
        max_page == IF total > 0 THEN Max(0, (total - 1) \div PAGE_SIZE) ELSE 0
        pg == ClampPage(total, page)
        start == pg * PAGE_SIZE
        end == Min(start + PAGE_SIZE, total)
    IN  { "m:delete:" \o Str(idx) : idx \in start..(end - 1) }
        \cup (IF pg > 0 THEN { "m:delp:" \o Str(pg - 1) } ELSE {})
        \cup (IF pg < max_page THEN { "m:delp:" \o Str(pg + 1) } ELSE {})
        \cup { "noop", "menu:manage" }

\* m:del
delete_template_start(w, uid) ==
    LET w1 == WithTpls(w, uid)
        items == collect_templates_flat(w1, uid)
    IN  IF Len(items) = 0 THEN Result(w1, "delete_template_start", "no_templates")
        ELSE LET w2 == [w1 EXCEPT !.pending_deletes[uid] = <<items>>]
             IN  Result(Issue(w2, uid, delete_menu_page(w2, uid, 0)),
                        "delete_template_start", "delete_menu")

\* int(c.data.split(":")[2]): <<>> when it raises
ColonInt(data) ==
    LET parts == Split(data, ":")
    IN  IF Len(parts) < 3 THEN <<>>
        ELSE IF ~IsInt(parts[3]) THEN <<>> ELSE << ToInt(parts[3]) >>

\* m:delp:<page>
delete_template_page(w, uid, data) ==
    LET pg == IF Len(ColonInt(data)) = 0 THEN 0 ELSE ColonInt(data)[1]
        w1 == IF Len(w.pending_deletes[uid]) = 0
              THEN LET wt == WithTpls(w, uid)
                   IN  [wt EXCEPT !.pending_deletes[uid] = <<collect_templates_flat(wt, uid)>>]
              ELSE w
    IN  Result(Issue(w1, uid, delete_menu_page(w1, uid, pg)),
               "delete_template_page", "delete_menu")

\* del tree[g][ch][n], then the two "if not ...: del ..." of the handler.
\* The deletion of the name alone, its containers kept.
TreeDelete_NameOnly(tree, g, ch, n) ==
    DictSet(tree, g, DictSet(DictGet(tree, g), ch,
                             DictDel(DictGet(DictGet(tree, g), ch), n)))

\* del tpls[g][ch][n], then the cheat map when empty, then the game map
TreeDelete(tree, g, ch, n) ==
    LET cd == DictDel(DictGet(DictGet(tree, g), ch), n)
        gd == IF Len(cd.items) = 0 THEN DictDel(DictGet(tree, g), ch)
              ELSE DictSet(DictGet(tree, g), ch, cd)
    IN  IF Len(gd.items) = 0 THEN DictDel(tree, g) ELSE DictSet(tree, g, gd)

\* m:delete:<idx>
delete_template_confirm(w, uid, data, save_ok) ==
    LET items == PendingOf(w, uid)
        ix == ColonInt(data)
    IN  IF Len(ix) = 0 THEN Result(w, "delete_template_confirm", "bad_index")
        ELSE IF ix[1] < 0 \/ ix[1] >= Len(items)
        THEN Result(w, "delete_template_confirm", "not_found")
        ELSE
        LET idx == ix[1]
            path == items[idx + 1]
            w0 == WithTpls(w, uid)
            found == TreeHas(tpls_of(w0, uid), path[1], path[2], path[3])
            \* the try block: KeyError leaves the tree as it is
            w1 == IF found
                  THEN [SetTpls(w0, uid, TreeDelete(tpls_of(w0, uid), path[1], path[2], path[3]))
                          EXCEPT !.fsm[uid].data.matrixIn = @ \ {path}]
                  ELSE w0
            w2 == IF found THEN save_storage(w1, save_ok) ELSE w1
        IN  IF found /\ ~save_ok
            THEN Result(w2, "delete_template_confirm", "unhandled:OSError")
            ELSE
            LET w3 == IF found THEN log_action(w2, uid, "delete_template", path) ELSE w2
                left == collect_templates_flat(w3, uid)
                w4 == [w3 EXCEPT !.pending_deletes[uid] = <<left>>]
                page0 == IF Len(left) > 0 THEN idx \div PAGE_SIZE ELSE 0
                max_page == Max(0, (Max(Len(left), 1) - 1) \div PAGE_SIZE)
                page == Min(page0, max_page)
            IN  Result(Issue(w4, uid, delete_menu_page(w4, uid, page)),
                       "delete_template_confirm", "deleted")

(***************************************************************************)
(* Settings and the admin roster                                           *)
(***************************************************************************)

\* menu:settings
settings_root(w, uid) == Result(ClearState(w, uid), "settings_root", "settings_menu")

\* dict.pop(key, None)
DictPop(d, k) == IF DictHas(d, k) THEN DictDel(d, k) ELSE d

\* set:clear
set_clear(w, uid, save_ok) ==
    LET w1 == [w EXCEPT !.storage.channels = DictPop(@, Str(uid)),
                        !.storage.channel_titles = DictPop(@, Str(uid))]
        w2 == save_storage(w1, save_ok)
    IN  IF ~save_ok THEN Result(w2, "set_clear", "unhandled:OSError")
        ELSE Result(log_action(w2, uid, "unbind_channel", <<>>), "set_clear", "channel_cleared")

\* The text of the test message.
TestText == "Test"

\* set:test
set_test(w, uid, send_ok) ==
    LET ch == ChannelOf(w, uid)
        snd == << Send(ch, TestText, <<>>, <<>>, send_ok) >>
    IN  IF ch = 0 THEN Result(w, "set_test", "no_channel")
        ELSE ResultSent(w, "set_test", IF send_ok THEN "test_sent" ELSE "send_error", snd)

\* sorted(set(admins) | {uid}) and sorted(set(admins) - {uid})
RECURSIVE SortedInts(_)
SortedInts(S) ==
    IF S = {} THEN <<>>
    ELSE LET m == CHOOSE x \in S : \A y \in S : x <= y
         IN  <<m>> \o SortedInts(S \ {m})

AdminSet(w) == { w.storage.admins[i] : i \in 1..Len(w.storage.admins) }

\* set:add_admin, set:del_admin
set_add_admin(w, uid) ==
    IF ~is_owner(w, uid) THEN Result(w, "set_add_admin", "owner_only")
    ELSE Result(SetState(w, uid, "WAIT_ADMIN_ADD"), "set_add_admin", "ask_admin_id")

set_del_admin(w, uid) ==
    IF ~is_owner(w, uid) THEN Result(w, "set_del_admin", "owner_only")
    ELSE IF Len(w.storage.admins) = 0 THEN Result(w, "set_del_admin", "no_admins")
    ELSE Result(SetState(w, uid, "WAIT_ADMIN_REMOVE"), "set_del_admin", "ask_admin_id")

\* a message in WAIT_ADMIN_ADD
add_admin(w, uid, m, save_ok) ==
    LET txt == Strip(OrEmpty(m.text))
    IN  IF ~is_owner(w, uid) THEN Result(w, "add_admin", "owner_only")
        ELSE IF ~IsInt(txt) THEN Result(w, "add_admin", "need_number")
        ELSE
        LET w1 == [w EXCEPT !.storage.admins = SortedInts(AdminSet(w) \cup {ToInt(txt)})]
            w2 == save_storage(w1, save_ok)
        IN  IF ~save_ok THEN Result(w2, "add_admin", "unhandled:OSError")
            ELSE Result(ClearState(log_action(w2, uid, "add_admin", <<txt>>), uid),
                        "add_admin", "admin_added")

\* a message in WAIT_ADMIN_REMOVE
del_admin(w, uid, m, save_ok) ==
    LET txt == Strip(OrEmpty(m.text))
    IN  IF ~is_owner(w, uid) THEN Result(w, "del_admin", "owner_only")
        ELSE IF ~IsInt(txt) THEN Result(w, "del_admin", "need_number")
        ELSE IF ToInt(txt) \notin AdminSet(w)
        THEN Result(ClearState(w, uid), "del_admin", "no_such_admin")
        ELSE
        LET w1 == [w EXCEPT !.storage.admins = SortedInts(AdminSet(w) \ {ToInt(txt)})]
            w2 == save_storage(w1, save_ok)
        IN  IF ~save_ok THEN Result(w2, "del_admin", "unhandled:OSError")
            ELSE Result(ClearState(log_action(w2, uid, "del_admin", <<txt>>), uid),
                        "del_admin", "admin_removed")

\* set:connect and the choice of the method
set_connect(w, uid) ==
    Result(SetState(w, uid, "CHOOSE_CONNECT_METHOD"), "set_connect", "ask_method")

connect_via_forward(w, uid) ==
    Result(SetState(w, uid, "WAIT_FORWARD_FROM_CHANNEL"), "connect_via_forward",
           "ask_forward")

connect_via_username(w, uid) ==
    Result(SetState(w, uid, "WAIT_CHANNEL_USERNAME"), "connect_via_username",
           "ask_username")

\* What bot.get_chat_administrators may give for a user: the user is in the
\* list, is not in it, or the call raises.
LookupOutcomes == { "admin", "not_admin", "error" }

\* user_is_admin with is_admin for every outcome.
user_is_admin_Always(outcome) == TRUE

\* user_is_admin, bot_is_admin: a lookup that raises counts as "no"
user_is_admin(outcome) == outcome = "admin"

bot_is_admin(outcome) == outcome = "admin"

\* (title or "Канал").strip(); the default is written in Latin letters
ChannelTitle(title) == Strip(IF Len(title) = 0 THEN "Kanal" ELSE title[1])

\* The part both connect handlers share, from the admin test on.  failed is
\* the answer when save_storage raises.
bind_channel(w, uid, ch_id, title, env, handler, failed) ==
    LET key == Str(uid)
        label == title \o " (" \o Str(ch_id) \o ")"
    IN  IF ~user_is_admin(env.user_lookup)
        THEN ResultLooked(Result(w, handler, "not_channel_admin"),
                          << [chat |-> ch_id, user |-> env.user_lookup, bot |-> "none"] >>)
        ELSE
        LET w1 == [w EXCEPT !.storage.channels = DictSet(@, key, PyInt(ch_id)),
                            !.storage.channel_titles = DictSet(@, key, PyStr(label))]
            w2 == save_storage(w1, env.save_ok)
            warn == IF bot_is_admin(env.bot_lookup) THEN "channel_bound"
                    ELSE "channel_bound_bot_not_admin"
            r == IF ~env.save_ok THEN Result(w2, handler, failed)
                 ELSE Result(ClearState(log_action(w2, uid, "bind_channel",
                                                   << Str(ch_id) >>), uid),
                             handler, warn)
        IN  ResultLooked(r, << [chat |-> ch_id, user |-> env.user_lookup,
                                bot |-> env.bot_lookup] >>)

\* a message in WAIT_FORWARD_FROM_CHANNEL
get_channel_from_forward(w, uid, m, env) ==
    IF Len(m.fwd) > 0 /\ m.fwd[1].type = "channel"
    THEN bind_channel(w, uid, m.fwd[1].id, ChannelTitle(m.fwd[1].title), env,
                      "get_channel_from_forward", "unhandled:OSError")
    ELSE Result(w, "get_channel_from_forward", "not_a_forward")

\* a message in WAIT_CHANNEL_USERNAME; env.chat is what bot.get_chat gives
get_channel_from_username(w, uid, m, env) ==
    LET username == Strip(OrEmpty(m.text))
    IN  IF ~StartsWith(username, "@")
        THEN Result(w, "get_channel_from_username", "need_username")
        ELSE IF Len(env.chat) = 0
        THEN Result(w, "get_channel_from_username", "get_channel_failed")
        ELSE IF env.chat[1].type # "channel"
        THEN Result(w, "get_channel_from_username", "not_a_channel")
        ELSE bind_channel(w, uid, env.chat[1].id, ChannelTitle(env.chat[1].title), env,
                          "get_channel_from_username", "get_channel_failed")

\* owner:audit: the last lines of audit.log, to the owner
owner_audit(w, uid) ==
    IF ~is_owner(w, uid) THEN Result(w, "owner_audit", "owner_only")
    ELSE IF Len(w.audit.tail) = 0 THEN Result(w, "owner_audit", "audit_empty")
    ELSE ResultShown(w, "owner_audit", "audit_shown", <<>>, w.audit.tail)

\* /start
start_cmd(w, uid) == Result(w, "start_cmd", "main_menu")

(***************************************************************************)
(* Export and import                                                       *)
(*                                                                         *)
(* A JSON text is the sequence of its tokens: the punctuation, null, the   *)
(* numbers, and the string literals in their quotes with their escapes.    *)
(* The indentation of json.dumps is no token.                              *)
(***************************************************************************)

Quote == "\""

Backslash == "\\"

\* The body of a string literal: quote and backslash escaped.
RECURSIVE JsonEscape(_)
JsonEscape(t) ==
    IF Len(t) = 0 THEN ""
    ELSE LET c == CharAt(t, 1)
             e == IF c = Quote \/ c = Backslash THEN Backslash \o c ELSE c
         IN  e \o JsonEscape(SubSeq(t, 2, Len(t)))

RECURSIVE JsonUnescape(_)
JsonUnescape(t) ==
    IF Len(t) = 0 THEN ""
    ELSE IF CharAt(t, 1) = Backslash /\ Len(t) >= 2
    THEN CharAt(t, 2) \o JsonUnescape(SubSeq(t, 3, Len(t)))
    ELSE CharAt(t, 1) \o JsonUnescape(SubSeq(t, 2, Len(t)))

JsonString(t) == Quote \o JsonEscape(t) \o Quote

\* json.dumps
RECURSIVE JsonDumps(_)
RECURSIVE JsonElems(_)
RECURSIVE JsonMembers(_)
JsonElems(es) ==
    IF Len(es) = 0 THEN <<>>
    ELSE JsonDumps(es[1])
         \o (IF Len(es) > 1 THEN << "," >> \o JsonElems(Tail(es)) ELSE <<>>)

JsonMembers(items) ==
    IF Len(items) = 0 THEN <<>>
    ELSE << JsonString(items[1].k), ":" >> \o JsonDumps(items[1].v)
         \o (IF Len(items) > 1 THEN << "," >> \o JsonMembers(Tail(items)) ELSE <<>>)

JsonDumps(v) ==
    CASE v.tag = "none" -> << "null" >>
      [] v.tag = "str" -> << JsonString(v.s) >>
      [] v.tag = "int" -> << Str(v.n) >>
      [] v.tag = "list" -> << "[" >> \o JsonElems(v.es) \o << "]" >>
      [] v.tag = "dict" -> << "{" >> \o JsonMembers(v.items) \o << "}" >>

\* json.load: the value and the position behind it; position 0 when the
\* text is no JSON.
NoParse == [v |-> PyNone, i |-> 0]

IsStringToken(t) ==
    Len(t) >= 2 /\ CharAt(t, 1) = Quote /\ CharAt(t, Len(t)) = Quote

RECURSIVE ParseValue(_, _)
RECURSIVE ParseElems(_, _, _)
RECURSIVE ParseMembers(_, _, _)
ParseElems(toks, i, acc) ==
    IF i > Len(toks) THEN NoParse
    ELSE IF toks[i] = "]" /\ Len(acc) = 0 THEN [v |-> PyList(acc), i |-> i + 1]
    ELSE LET r == ParseValue(toks, i)
         IN  IF r.i = 0 \/ r.i > Len(toks) THEN NoParse
             ELSE IF toks[r.i] = "," THEN ParseElems(toks, r.i + 1, Append(acc, r.v))
             ELSE IF toks[r.i] = "]" THEN [v |-> PyList(Append(acc, r.v)), i |-> r.i + 1]
             ELSE NoParse

\* a key given twice keeps its last value
ParseMembers(toks, i, acc) ==
    IF i > Len(toks) THEN NoParse
    ELSE IF toks[i] = "}" /\ Len(acc.items) = 0 THEN [v |-> acc, i |-> i + 1]
    ELSE IF i + 1 > Len(toks) \/ ~IsStringToken(toks[i]) \/ toks[i + 1] # ":" THEN NoParse
    ELSE LET key == JsonUnescape(SubSeq(toks[i], 2, Len(toks[i]) - 1))
             r == ParseValue(toks, i + 2)
         IN  IF r.i = 0 \/ r.i > Len(toks) THEN NoParse
             ELSE IF toks[r.i] = "," THEN ParseMembers(toks, r.i + 1, DictSet(acc, key, r.v))
             ELSE IF toks[r.i] = "}" THEN [v |-> DictSet(acc, key, r.v), i |-> r.i + 1]
             ELSE NoParse

ParseValue(toks, i) ==
    IF i > Len(toks) THEN NoParse
    ELSE LET t == toks[i]
         IN  CASE t = "null" -> [v |-> PyNone, i |-> i + 1]
               [] t = "[" -> ParseElems(toks, i + 1, <<>>)
               [] t = "{" -> ParseMembers(toks, i + 1, EmptyDict)
               [] IsStringToken(t) ->
                    [v |-> PyStr(JsonUnescape(SubSeq(t, 2, Len(t) - 1))), i |-> i + 1]
               [] IsInt(t) -> [v |-> PyInt(ToInt(t)), i |-> i + 1]
               [] OTHER -> NoParse

\* <<>> when json.load raises, else << the value >>
JsonLoads(toks) ==
    LET r == ParseValue(toks, 1)
    IN  IF r.i = Len(toks) + 1 THEN << r.v >> ELSE <<>>

\* The document in memory as the value json.dumps is given.
StorageValue(doc) ==
    PyDict(<< [k |-> "admins",
               v |-> PyList([i \in 1..Len(doc.admins) |-> PyInt(doc.admins[i])])],
              [k |-> "channels", v |-> doc.channels],
              [k |-> "channel_titles", v |-> doc.channel_titles],
              [k |-> "templates", v |-> doc.templates] >>)

\* The characters of a token in the text json.dumps gives without indent:
\* a blank follows a comma and a colon.
TokenChars(t) == IF t \in { ",", ":" } THEN 2 ELSE Len(t)

\* The characters of the tokens lo..hi of a text.
RECURSIVE SumChars(_, _, _)
SumChars(toks, lo, hi) ==
    IF lo > hi THEN 0
    ELSE IF lo = hi THEN TokenChars(toks[lo])
    ELSE SumChars(toks, lo, (lo + hi) \div 2) + SumChars(toks, (lo + hi) \div 2 + 1, hi)

\* text[:n], as the tokens that lie wholly within the first n characters.
TakeChars(toks, n) ==
    LET k == CHOOSE j \in 0..Len(toks) :
                 /\ SumChars(toks, 1, j) <= n
                 /\ j < Len(toks) => SumChars(toks, 1, j + 1) > n
    IN  SubSeq(toks, 1, k)

PreviewChars == 800

\* /storage: the first 800 characters of the document in memory
show_storage(w, uid) ==
    ResultShown(w, "show_storage", "storage_shown", <<>>,
                TakeChars(JsonDumps(StorageValue(w.storage)), PreviewChars))

\* m:export
m_export(w, uid) ==
    IF ~admin_only(w, uid) THEN Result(w, "m_export", "denied")
    ELSE LET w1 == WithTpls(w, uid)
         IN  ResultShown(log_action(w1, uid, "export", <<>>), "m_export", "exported",
                         <<>>, JsonDumps(tpls_of(w1, uid)))

\* m:import
m_import_start(w, uid) ==
    IF ~admin_only(w, uid) THEN Result(w, "m_import_start", "denied")
    ELSE Result(SetState(w, uid, "WAIT_FILE"), "m_import_start", "ask_file")

\* The entry without the photo of the payload.
ImportEntry_NoPhoto(payload) ==
    Entry(DictGetOr(payload, "text", PyStr("")), PyNone,
          DictGetOr(payload, "buttons", PyList(<<>>)))

\* {"text": payload.get("text", ""), "photo": payload.get("photo"),
\*  "buttons": payload.get("buttons", [])}
ImportEntry(payload) ==
    Entry(DictGetOr(payload, "text", PyStr("")), DictGetOr(payload, "photo", PyNone),
          DictGetOr(payload, "buttons", PyList(<<>>)))

\* The three loops of the merge; merged counts the entries set.
RECURSIVE ImportNames(_, _)
ImportNames(acc, items) ==
    IF Len(items) = 0 THEN acc
    ELSE LET it == Head(items)
         IN  ImportNames(IF it.v.tag # "dict" THEN acc
                         ELSE [ch |-> DictSet(acc.ch, it.k, ImportEntry(it.v)),
                               merged |-> acc.merged + 1],
                         Tail(items))

RECURSIVE ImportCheats(_, _)
ImportCheats(acc, items) ==
    IF Len(items) = 0 THEN acc
    ELSE LET it == Head(items)
         IN  ImportCheats(
                 IF it.v.tag # "dict" THEN acc
                 ELSE LET g0 == DictSetDefault(acc.g, it.k, EmptyDict)
                          r == ImportNames([ch |-> DictGet(g0, it.k), merged |-> acc.merged],
                                           it.v.items)
                      IN  [g |-> DictSet(g0, it.k, r.ch), merged |-> r.merged],
                 Tail(items))

RECURSIVE ImportGames(_, _)
ImportGames(acc, items) ==
    IF Len(items) = 0 THEN acc
    ELSE LET it == Head(items)
         IN  ImportGames(
                 IF it.v.tag # "dict" THEN acc
                 ELSE LET t0 == DictSetDefault(acc.tpls, it.k, EmptyDict)
                          r == ImportCheats([g |-> DictGet(t0, it.k), merged |-> acc.merged],
                                            it.v.items)
                      IN  [tpls |-> DictSet(t0, it.k, r.g), merged |-> r.merged],
                 Tail(items))

\* a document in WAIT_FILE; every exception, that of the save too, is
\* caught and answered
m_import_file(w, uid, m, save_ok) ==
    IF ~admin_only(w, uid) THEN Result(w, "m_import_file", "denied")
    ELSE LET incoming == JsonLoads(m.doc[1])
         IN  IF Len(incoming) = 0 THEN Result(w, "m_import_file", "import_error")
             ELSE IF incoming[1].tag # "dict"
             THEN Result(w, "m_import_file", "bad_format")
             ELSE
             LET w1 == WithTpls(w, uid)
                 r == ImportGames([tpls |-> tpls_of(w1, uid), merged |-> 0],
                                  incoming[1].items)
                 w2 == save_storage(SetTpls(w1, uid, r.tpls), save_ok)
             IN  IF ~save_ok THEN Result(w2, "m_import_file", "import_error")
                 ELSE Result(ClearState(log_action(w2, uid, "import", << r.merged >>), uid),
                             "m_import_file", "imported")

\* m_import_wrong: anything but a document while a file is awaited.
m_import_wrong(w, uid) == Result(w, "m_import_wrong", "need_document")

(***************************************************************************)
(* Dispatch: the first handler whose filters match, behind the admin gate  *)
(***************************************************************************)

\* The callback handler whose filter matches, in registration order.
CallbackHandler(w, uid, data) ==
    LET st == StateOf(w, uid)
    IN  CASE data = "menu:back" -> "menu_back"
          [] data = "menu:create" -> "create_post"
          [] StartsWith(data, "compose:") -> "compose_actions"
          [] data = "menu:ready" -> "ready_root"
          [] data = "tpl:back:games" -> "back_to_games"
          [] StartsWith(data, "tpl:g#") -> "choose_game"
          [] StartsWith(data, "tpl:back:cheats#") -> "back_to_cheats"
          [] StartsWith(data, "tpl:c#") -> "choose_cheat"
          [] StartsWith(data, "tpl:n#") -> "choose_name"
          [] StartsWith(data, "tpl:prev#") -> "tpl_preview"
          [] StartsWith(data, "tpl:send#") -> "tpl_send"
          [] StartsWith(data, "tpl:back:templates#") -> "back_to_templates"
          [] data = "menu:manage" -> "manage_root"
          [] data = "m:add" -> "m_add_start"
          [] st = "BTN_MENU" /\ StartsWith(data, "mt:") -> "m_btn_menu"
          [] data = "m:del" -> "delete_template_start"
          [] StartsWith(data, "m:delp:") -> "delete_template_page"
          [] StartsWith(data, "m:delete:") -> "delete_template_confirm"
          [] data = "m:export" -> "m_export"
          [] data = "m:import" -> "m_import_start"
          [] data = "menu:settings" -> "settings_root"
          [] data = "set:clear" -> "set_clear"
          [] data = "set:test" -> "set_test"
          [] data = "set:connect" -> "set_connect"
          [] st = "CHOOSE_CONNECT_METHOD" /\ data = "set:via_forward" -> "connect_via_forward"
          [] st = "CHOOSE_CONNECT_METHOD" /\ data = "set:via_username" -> "connect_via_username"
          [] data = "owner:audit" -> "owner_audit"
          [] data = "set:add_admin" -> "set_add_admin"
          [] data = "set:del_admin" -> "set_del_admin"
          [] OTHER -> "none"

\* The message handler whose filters match, in registration order.
MessageHandler(w, uid, m) ==
    LET st == StateOf(w, uid)
    IN  CASE OrEmpty(m.text) = "/start" -> "start_cmd"
          [] OrEmpty(m.text) = "/storage" -> "show_storage"
          [] st = "WAIT_TEXT" -> "get_post_text"
          [] st = "WAIT_PHOTO" /\ Len(m.photo) > 0 -> "add_photo"
          [] st = "ADD_BUTTON_TEXT" -> "add_btn_text"
          [] st = "ADD_BUTTON_URL" -> "add_btn_url"
          [] st = "ADD_GAME" -> "m_add_game"
          [] st = "ADD_CHEAT" -> "m_add_cheat"
          [] st = "ADD_NAME" -> "m_add_name"
          [] st = "ADD_TEXT" -> "m_add_text"
          [] st = "ADD_PHOTO" -> "m_add_photo"
          [] st = "ADD_BTN_TEXT" -> "m_btn_text"
          [] st = "ADD_BTN_URL" -> "m_btn_url"
          [] st = "WAIT_FILE" /\ Len(m.doc) > 0 -> "m_import_file"
          [] st = "WAIT_FILE" -> "m_import_wrong"
          [] st = "WAIT_FORWARD_FROM_CHANNEL" -> "get_channel_from_forward"
          [] st = "WAIT_CHANNEL_USERNAME" -> "get_channel_from_username"
          [] st = "WAIT_ADMIN_ADD" -> "add_admin"
          [] st = "WAIT_ADMIN_REMOVE" -> "del_admin"
          [] OTHER -> "none"

\* env: what the surroundings decide in this event: whether a save succeeds
\* and whether the transport accepts a send.
RunCallback(w, uid, data, h, env) ==
    CASE h = "menu_back" -> menu_back(w, uid)
      [] h = "create_post" -> create_post(w, uid)
      [] h = "compose_actions" -> compose_actions(w, uid, data, env.send_ok)
      [] h = "ready_root" -> ready_root(w, uid)
      [] h = "back_to_games" -> back_to_games(w, uid)
      [] h = "choose_game" -> choose_game(w, uid, data, h)
      [] h = "back_to_cheats" -> choose_game(w, uid, data, h)
      [] h = "choose_cheat" -> choose_cheat(w, uid, data)
      [] h = "choose_name" -> choose_name(w, uid, data)
      [] h = "tpl_preview" -> tpl_preview(w, uid, data)
      [] h = "tpl_send" -> tpl_send(w, uid, data, env.send_ok)
      [] h = "back_to_templates" -> back_to_templates(w, uid, data)
      [] h = "manage_root" -> manage_root(w, uid)
      [] h = "m_add_start" -> m_add_start(w, uid)
      [] h = "m_btn_menu" -> m_btn_menu(w, uid, data, env.save_ok)
      [] h = "delete_template_start" -> delete_template_start(w, uid)
      [] h = "delete_template_page" -> delete_template_page(w, uid, data)
      [] h = "delete_template_confirm" -> delete_template_confirm(w, uid, data, env.save_ok)
      [] h = "m_export" -> m_export(w, uid)
      [] h = "m_import_start" -> m_import_start(w, uid)
      [] h = "settings_root" -> settings_root(w, uid)
      [] h = "set_clear" -> set_clear(w, uid, env.save_ok)
      [] h = "set_test" -> set_test(w, uid, env.send_ok)
      [] h = "set_connect" -> set_connect(w, uid)
      [] h = "connect_via_forward" -> connect_via_forward(w, uid)
      [] h = "connect_via_username" -> connect_via_username(w, uid)
      [] h = "owner_audit" -> owner_audit(w, uid)
      [] h = "set_add_admin" -> set_add_admin(w, uid)
      [] h = "set_del_admin" -> set_del_admin(w, uid)

RunMessage(w, uid, m, h, env) ==
    CASE h = "start_cmd" -> start_cmd(w, uid)
      [] h = "show_storage" -> show_storage(w, uid)
      [] h = "get_post_text" -> get_post_text(w, uid, m)
      [] h = "add_photo" -> add_photo(w, uid, m)
      [] h = "add_btn_text" -> add_btn_text(w, uid, m)
      [] h = "add_btn_url" -> add_btn_url(w, uid, m)
      [] h = "m_add_game" -> m_add_game(w, uid, m)
      [] h = "m_add_cheat" -> m_add_cheat(w, uid, m)
      [] h = "m_add_name" -> m_add_name(w, uid, m)
      [] h = "m_add_text" -> m_add_text(w, uid, m)
      [] h = "m_add_photo" -> m_add_photo(w, uid, m)
      [] h = "m_btn_text" -> m_btn_text(w, uid, m, env.save_ok)
      [] h = "m_btn_url" -> m_btn_url(w, uid, m)
      [] h = "m_import_file" -> m_import_file(w, uid, m, env.save_ok)
      [] h = "m_import_wrong" -> m_import_wrong(w, uid)
      [] h = "get_channel_from_forward" -> get_channel_from_forward(w, uid, m, env)
      [] h = "get_channel_from_username" -> get_channel_from_username(w, uid, m, env)
      [] h = "add_admin" -> add_admin(w, uid, m, env.save_ok)
      [] h = "del_admin" -> del_admin(w, uid, m, env.save_ok)

\* AdminGuard without its admin_only test.
AdminGuard_Open(w, uid, h, run) ==
    IF h = "none" THEN Result(w, "none", "none") ELSE run

\* AdminGuard, an inner middleware: it runs when a handler's filters have
\* matched, before the handler.  An event no handler matches is dropped
\* without an answer.
AdminGuard(w, uid, h, run) ==
    IF h = "none" THEN Result(w, "none", "none")
    ELSE IF ~admin_only(w, uid) THEN Result(w, "AdminGuard", "denied")
    ELSE run

\* The event of record o rendered the delete menu.
RendersDeleteMenu(o) ==
    \/ o.handler \in { "delete_template_start", "delete_template_page" }
         /\ o.resp = "delete_menu"
    \/ o.handler = "delete_template_confirm" /\ o.resp = "deleted"

\* The item buttons of the delete menu that the result r shows to the user:
\* each token with the template its label names.
ItemButtons(r, uid) ==
    LET items == PendingOf(r.w, uid)
    IN  { << t, items[ColonInt(t)[1] + 1] >> :
            t \in { u \in r.w.issued[uid] : StartsWith(u, "m:delete:") } }

\* The button inputs the build session of a user has had accepted since its
\* m:add: the rows closed by mt:new_row and the row still open.  And the
\* item buttons of the delete menus the user has been shown.
NoSession == [rows |-> <<>>, open |-> <<>>, listed |-> {}]

SessionStep(ses, w, r, uid, data) ==
    CASE RendersDeleteMenu(r) -> [ses EXCEPT !.listed = @ \cup ItemButtons(r, uid)]
      [] r.handler = "m_add_start" -> [NoSession EXCEPT !.listed = ses.listed]
      [] r.handler = "m_btn_url" /\ r.resp = "button_menu" ->
           [ses EXCEPT !.open =
               Append(@, TplButton(PyStr(OrEmpty(DataOf(w, uid).btn_text)),
                                   PyStr(Strip(data))))]
      [] r.handler = "m_btn_menu" /\ data = "mt:new_row" /\ Len(ses.open) > 0 ->
           [ses EXCEPT !.rows = Append(ses.rows, ses.open), !.open = <<>>]
      [] OTHER -> ses

\* The matrix these inputs describe, row by row.
SessionMatrix(ses) ==
    IF Len(ses.open) > 0 THEN Append(ses.rows, ses.open) ELSE ses.rows

\* The state a result leaves.
Leave(r, uid, data) ==
    /\ session' = [session EXCEPT ![uid] = SessionStep(@, World, r, uid, data)]
    /\ storage' = r.w.storage
    /\ disk' = r.w.disk
    /\ audit' = r.w.audit
    /\ fsm' = r.w.fsm
    /\ user_drafts' = r.w.user_drafts
    /\ pending_deletes' = r.w.pending_deletes
    /\ issued' = r.w.issued
    /\ saveFailures' = r.w.saveFailures
    /\ UNCHANGED << OWNER_ID, boot, fs, scenario >>

\* The state a result leaves, with the record of the event.
Commit(r, uid, kind, data, photo, doc) ==
    /\ Leave(r, uid, data)
    /\ out' = [uid |-> uid, kind |-> kind, data |-> data, photo |-> photo,
               handler |-> r.handler, resp |-> r.resp, sends |-> r.sends,
               shown |-> r.shown, lookup |-> r.lookup, doc |-> doc]

\* The handlers that call save_storage, and those that send to a channel.
SavingHandlers ==
    { "m_btn_menu", "m_btn_text", "delete_template_confirm", "m_import_file",
      "set_clear", "add_admin", "del_admin", "get_channel_from_forward",
      "get_channel_from_username" }

SendingHandlers == { "compose_actions", "tpl_send", "set_test" }

\* The handlers that ask the transport who administers a channel, and the
\* one that asks it for a chat by its username.
LookupHandlers == { "get_channel_from_forward", "get_channel_from_username" }

\* The channel bound at the start, the channel the users try to connect,
\* and what bot.get_chat may give for "@news": that channel, a group, or an
\* error (no chat).
ChannelId == 0 - 1001

NewsId == ChannelId - 1

Chats ==
    { <<>>, << [id |-> NewsId, title |-> << " News" >>, type |-> "channel"] >>,
      << [id |-> NewsId - 1, title |-> << "Talk" >>, type |-> "supergroup"] >> }

MaxSaveFailures == 1

\* What the surroundings decide in an event of handler h.
Envs(h) ==
    { [save_ok |-> s, send_ok |-> t, user_lookup |-> u, bot_lookup |-> b, chat |-> c] :
        s \in (IF h \in SavingHandlers /\ saveFailures < MaxSaveFailures
               THEN BOOLEAN ELSE {TRUE}),
        t \in (IF h \in SendingHandlers THEN BOOLEAN ELSE {TRUE}),
        u \in (IF h \in LookupHandlers THEN LookupOutcomes ELSE {"admin"}),
        b \in (IF h \in LookupHandlers THEN LookupOutcomes ELSE {"admin"}),
        c \in (IF h = "get_channel_from_username" THEN Chats ELSE {<<>>}) }

\* A callback query of user uid with callback data `data`.
Callback(uid, data) ==
    LET h == CallbackHandler(World, uid, data)
    IN  \E env \in Envs(h) :
            Commit(AdminGuard(World, uid, h, RunCallback(World, uid, data, h, env)),
                   uid, "callback", data, <<>>, <<>>)
            /\ UNCHANGED tasks

\* A message of user uid.
Message(uid, m) ==
    LET h == MessageHandler(World, uid, m)
    IN  \E env \in Envs(h) :
            Commit(AdminGuard(World, uid, h, RunMessage(World, uid, m, h, env)),
                   uid, "message", OrEmpty(m.text), m.photo, m.doc)
            /\ UNCHANGED tasks

(***************************************************************************)
(* The surroundings: bounded inputs                                        *)
(*                                                                         *)
(* A run exercises one part of the bot (scenario): the post draft flow,    *)
(* the template build flow, the template tree (browse, delete, save), or   *)
(* the admin roster beside a session, where the stranger and the removed   *)
(* admin try what an admin does.                                           *)
(***************************************************************************)

\* Bounds of the model.
MaxButtons == 2

MaxRows == 2

MaxAudit == 2

MaxLeaves == 3

Msg(text) == [text |-> <<text>>, photo |-> <<>>, doc |-> <<>>, fwd |-> <<>>]

PhotoMsg(id) == [text |-> <<>>, photo |-> <<id>>, doc |-> <<>>, fwd |-> <<>>]

\* A post forwarded from the chat `chat` (m.forward_from_chat).
FwdMsg(chat) == [text |-> <<"post">>, photo |-> <<>>, doc |-> <<>>, fwd |-> << chat >>]

\* A document whose content is the JSON text toks.
DocMsg(toks) == [text |-> <<>>, photo |-> <<>>, doc |-> << toks >>, fwd |-> <<>>]

RECURSIVE CountButtons(_)
CountButtons(rows) ==
    IF Len(rows) = 0 THEN 0 ELSE Len(Head(rows)) + CountButtons(Tail(rows))

\* URL inputs: accepted as sent, accepted once stripped, rejected.
UrlMsgs(count) ==
    (IF count < MaxButtons THEN { Msg("https://x"), Msg(" https://x") } ELSE {})
    \cup { Msg("ftp://x") }

\* Label inputs: the first button of a keyboard is Buy, the later ones Info.
LabelMsgs(count) == IF count = 0 THEN { Msg("Buy") } ELSE { Msg("Info") }

\* The names of the tree scenario.
TreeGames == { "a" }

TreeCheats == { "x", "y" }

TreeNames == { "m", "n" }

\* Template entries of incoming files: one with every field, one without
\* any, one with a field the bot does not know.
FullLeaf ==
    Entry(PyStr("New"), PyStr("p1"),
          PyList(<< PyList(<< TplButton(PyStr("Buy"), PyStr("https://x")) >>) >>))

BareLeaf == EmptyDict

\* An entry whose button carries a link that is no http(s) link.
FtpLeaf ==
    Entry(PyStr("Hi"), PyNone,
          PyList(<< PyList(<< TplButton(PyStr("Buy"), PyStr("ftp://x")) >>) >>))

NotedLeaf == PyDict(<< [k |-> "text", v |-> PyStr("Hi")], [k |-> "note", v |-> PyInt(7)] >>)

Member(k, v) == [k |-> k, v |-> v]

OneDict(k, v) == PyDict(<< Member(k, v) >>)

\* The values of the files sent for import: entries over existing ones and
\* new ones; an entry with an ftp link; a number for a game, a string for a
\* cheat, null and a list for an entry; a game without cheats, a cheat without names, a branch whose
\* entries are all malformed; an empty object; a list.
ImportPayloads ==
    { PyDict(<< Member("a", OneDict("x", OneDict("m", FullLeaf))),
                Member("b", OneDict("z", OneDict("k", NotedLeaf))) >>),
      PyDict(<< Member("a", PyInt(5)),
                Member("b", PyDict(<< Member("z", PyStr("s")),
                                      Member("w", PyDict(<< Member("k", PyNone),
                                                            Member("j", FullLeaf) >>)) >>)) >>),
      OneDict("c", EmptyDict),
      OneDict("a", OneDict("x", OneDict("f", FtpLeaf))),
      OneDict("a", OneDict("q", EmptyDict)),
      OneDict("a", OneDict("x", OneDict("n", BareLeaf))),
      OneDict("d", OneDict("z", OneDict("k", PyList(<< PyStr("Hello") >>)))),
      EmptyDict,
      PyList(<<>>) }

\* What is sent while a file is awaited: those files, a file that is no
\* JSON, and a text.
ImportMsgs ==
    { DocMsg(JsonDumps(p)) : p \in ImportPayloads }
    \cup { DocMsg(<< "{" >>), Msg("Hello") }

\* What is sent at the prompts for a game, a cheat and a name: a name, white
\* space, and a photo without a caption.
NameMsgs == { Msg("a"), Msg(" "), PhotoMsg("p1") }

\* What is sent at the admin id prompts of the owner scenario: the id of
\* each user, the owner's own included, and a text that is no number.
AdminIdMsgs == { Msg(Str(u)) : u \in Users } \cup { Msg("abc") }

\* What a user in FSM state st may send, by the prompt the user has seen.
MsgsFor(uid, st) ==
    LET tree == scenario = "tree"
        room == Len(collect_templates_flat(World, uid)) < MaxLeaves
        brief == scenario = "roster" /\ uid # OwnerUser
        paired == scenario \in { "two", "private" }
    IN
    CASE brief /\ st \notin { NoState, "WAIT_TEXT", "ADD_GAME" } -> {}
      [] scenario = "listing" /\ st = "ADD_GAME" -> { Msg("a"), Msg("A") }
      [] scenario = "listing" /\ st = "ADD_CHEAT" -> { Msg("x"), Msg("X") }
      [] scenario = "listing" /\ st = "ADD_NAME" -> { Msg("m"), Msg("M") }
      [] scenario = "listing" /\ st \in { "ADD_PHOTO", "ADD_BTN_TEXT" } -> { Msg("0") }
      [] scenario = "listing" /\ st = NoState -> {}
      [] scenario = "pages" -> { Msg("/start") }
      [] scenario = "sends" /\ st = NoState -> {}
      [] scenario = "private" /\ uid = OwnerUser -> {}
      [] scenario = "private" /\ st = NoState -> { Msg("/storage") }
      [] paired /\ st \in { "ADD_PHOTO", "ADD_BTN_TEXT" } -> { Msg("0") }
      [] paired /\ st = "ADD_NAME" -> { Msg(Str(uid)) }
      [] paired /\ st = "WAIT_FILE" ->
             { DocMsg(JsonDumps(OneDict("b", OneDict("z", OneDict(Str(uid), FullLeaf))))) }
      [] paired /\ st = "WAIT_FORWARD_FROM_CHANNEL" ->
             { FwdMsg([id |-> NewsId, title |-> << "News" >>, type |-> "channel"]) }
      [] scenario = "two" /\ st = NoState -> {}
      [] st = "WAIT_TEXT" -> { Msg("Hello") }
      [] st = "WAIT_PHOTO" -> { PhotoMsg("p1"), Msg("Hello") }
      [] st = "ADD_BUTTON_TEXT" -> LabelMsgs(CountButtons(DraftOf(World, uid).buttons))
      [] st = "ADD_BUTTON_URL" -> UrlMsgs(CountButtons(DraftOf(World, uid).buttons))
      [] st \in { "ADD_GAME", "ADD_CHEAT", "ADD_NAME" } /\ scenario = "names" -> NameMsgs
      [] st = "ADD_BTN_TEXT" /\ scenario = "names" -> { Msg("0") }
      [] st = "ADD_GAME" -> { Msg(g) : g \in TreeGames }
      [] st = "ADD_CHEAT" -> IF tree THEN { Msg(c) : c \in TreeCheats } ELSE { Msg("x") }
      [] st = "ADD_NAME" -> IF tree THEN { Msg(n) : n \in TreeNames } ELSE { Msg("m") }
      [] st = "ADD_TEXT" -> { Msg("Hello") }
      [] st = "ADD_PHOTO" ->
             { Msg("0"), Msg("Hello") }
      [] st = "ADD_BTN_TEXT" ->
             IF tree THEN (IF room THEN { Msg("0") } ELSE {})
             ELSE LabelMsgs(Len(fsm[uid].data.row) + CountButtons(fsm[uid].data.matrix))
                  \cup { Msg("0") }
      [] st = "ADD_BTN_URL" ->
             UrlMsgs(Len(fsm[uid].data.row) + CountButtons(fsm[uid].data.matrix))
      [] st = "WAIT_FORWARD_FROM_CHANNEL" ->
             { FwdMsg(c[1]) : c \in Chats \ { <<>> } } \cup { Msg("Hello") }
      [] st = "WAIT_CHANNEL_USERNAME" -> { Msg("@news"), Msg("news") }
      [] st = "WAIT_FILE" -> ImportMsgs
      [] st = "WAIT_ADMIN_ADD" ->
             IF scenario = "owner" THEN AdminIdMsgs ELSE { Msg(Str(AdminUser)) }
      [] st = "WAIT_ADMIN_REMOVE" ->
             IF scenario = "owner" THEN AdminIdMsgs ELSE { Msg(Str(AdminUser)) }
      [] OTHER -> { Msg("/start"), Msg("Hello") }

DraftTokens ==
    { "menu:back", "menu:create", "compose:add_btn", "compose:add_row",
      "compose:add_photo", "compose:del_photo", "compose:preview", "compose:send",
      "set:clear" }

BuildTokens ==
    { "menu:back", "menu:manage", "m:add", "mt:add_in_row", "mt:new_row", "mt:save" }

TreeTokens == { "menu:ready", "tpl:back:games", "m:add", "m:del" }

RosterTokens == { "set:add_admin", "set:del_admin", "menu:back" }

SessionTokens == { "menu:create", "compose:add_btn", "m:add", "menu:back" }

\* The three send actions, a draft to send, and the unbinding.
SendsTokens ==
    { "menu:create", "compose:add_photo", "compose:send", "tpl:send#0#0#0",
      "tpl:send#0#0#1", "set:test", "set:clear" }

BindTokens ==
    { "menu:settings", "set:connect", "set:via_forward", "set:via_username",
      "set:clear" }

\* Navigation tokens as a client may send them: of each kind one as the
\* keyboards carry it, and ones with a field too few, a field too many, an
\* empty field and a field that is no number.
NavPrefixes ==
    { "tpl:g#", "tpl:back:cheats#", "tpl:c#", "tpl:back:templates#", "tpl:n#",
      "tpl:prev#", "tpl:send#" }

NavPayloads ==
    { "", "0", "x", "0#0", "0#x", "-1#0", "0#0#0", "0#0#x", "0#0#-1", "0#0#0#0" }

NavTokens == { p \o q : p \in NavPrefixes, q \in NavPayloads }

ImportTokens == { "m:import", "menu:back" }

NamesTokens == { "m:add", "menu:back" }

\* The two actors save, delete and import templates, and bind and unbind
\* a channel.
TwoTokens == { "m:add", "m:del", "m:import", "set:clear", "set:connect", "set:via_forward" }

\* The admin builds templates and opens the list of the games.
ListingTokens == { "m:add", "menu:ready" }

\* The pages asked of the delete menu: before the first, the first, the
\* second, the third, one behind the last, and no number.
PageTokens ==
    { "m:del" } \cup { "m:delp:" \o q : q \in { "-1", "0", "1", "2", "5", "x" } }

\* The items pressed in the delete menu: the first of each page.
PressedItems == { "m:delete:0", "m:delete:20", "m:delete:40" }

\* And they browse, preview, send and export their templates.
PrivateTokens == TwoTokens \cup { "menu:ready", "m:export" }

OwnerTokens == { "set:add_admin", "set:del_admin", "owner:audit", "menu:back" }

\* The tokens the surroundings deliver for a user: the buttons without an
\* index of the scenario's menus, and the indexed tokens of the keyboards the
\* user was shown.  The stranger was shown none and tries the admin's.  In
\* the tree scenario the user answers a dialogue to its end.
TokensFor(uid) ==
    LET who == IF uid = Stranger THEN AdminUser ELSE uid
        static == CASE scenario = "draft" -> DraftTokens
                    [] scenario = "build" -> BuildTokens
                    [] scenario = "tree" -> TreeTokens
                    [] scenario = "owner" -> OwnerTokens
                    [] scenario = "bind" -> BindTokens
                    [] scenario = "tokens" -> NavTokens
                    [] scenario = "import" -> ImportTokens
                    [] scenario = "names" -> NamesTokens
                    [] scenario = "two" -> TwoTokens
                    [] scenario = "private" -> PrivateTokens
                    [] scenario = "listing" -> ListingTokens
                    [] scenario = "pages" -> PageTokens
                    [] scenario = "sends" -> SendsTokens
                    [] OTHER -> IF uid = OwnerUser THEN RosterTokens ELSE SessionTokens
        kept == IF scenario = "pages" THEN { b[1] : b \in session[who].listed } ELSE {}
    IN  { t \in static \cup issued[who] \cup kept :
            /\ t = "compose:add_row" => Len(DraftOf(World, uid).buttons) < MaxRows
            /\ scenario = "tree" => fsm[uid].state = NoState
            /\ (scenario = "private" /\ uid = OwnerUser) => t = "set:clear"
            /\ scenario = "listing" => fsm[uid].state = NoState
            /\ (scenario = "pages" /\ StartsWith(t, "m:delete:")) => t \in PressedItems
            /\ (t \in { "noop", "menu:manage" } /\ t \notin static) => scenario = "pages"
            /\ scenario \in { "two", "private" } =>
                  IF t = "set:via_forward" THEN fsm[uid].state = "CHOOSE_CONNECT_METHOD"
                  ELSE fsm[uid].state = NoState }

\* The users that act in the scenario.
Acting ==
    CASE scenario \in { "roster", "owner" } -> Users
      [] scenario = "private" -> { OwnerUser, AdminUser }
      [] OTHER -> { AdminUser }

(***************************************************************************)
(* The running bot                                                         *)
(***************************************************************************)

\* After a start with OWNER_ID and one id in ADMIN_IDS.
Booted == [pc |-> "running", boots |-> 1, prev |-> <<>>]

\* No save under way.
IdleFs ==
    [pc |-> "idle", tmp |-> FileMissing, n |-> 0, old |-> FileMissing,
     renamed |-> FALSE, crashed |-> FALSE, loaded |-> <<>>]

\* The documents the bot starts from: the admin's channel bound or not, and
\* the admin's templates as an earlier run saved them.
Leaf == Entry(PyStr("Hello"), PyNone, PyList(<<>>))

StartTrees ==
    { EmptyDict,
      TreePut(TreePut(TreePut(EmptyDict, "a", "x", "n", Leaf), "a", "y", "m", Leaf),
              "a", "x", "m", Leaf) }

InitStorage(bound, tree) ==
    [DEFAULT_STORAGE EXCEPT
        !.admins = << OwnerUser, AdminUser >>,
        !.channels = IF bound
                     THEN PyDict(<< [k |-> Str(AdminUser), v |-> PyInt(ChannelId)] >>)
                     ELSE EmptyDict,
        !.channel_titles = IF bound
                           THEN PyDict(<< [k |-> Str(AdminUser), v |-> PyStr("Channel")] >>)
                           ELSE EmptyDict,
        !.templates = IF Len(tree.items) = 0 THEN EmptyDict
                      ELSE PyDict(<< [k |-> Str(AdminUser), v |-> tree] >>)]

Scenarios == { "draft", "build", "tree", "roster" }

\* No handler of the user is under way.  A task holds the event of the
\* handler (kind, data, m), the document as it was when the handler was
\* started (seen), the user's part of the document as the user's last
\* logged change left it (left), and whether the document had changed
\* between the start and the resumption of the handler that made it
\* (crossed).
IdleTask ==
    [pc |-> "idle", kind |-> "none", data |-> "", m |-> Msg(""), seen |-> <<>>,
     left |-> <<>>, crossed |-> FALSE]

\* Nobody has done anything yet.
IdleBot ==
    /\ audit = EmptyAudit
    /\ fsm = [u \in Users |-> ClearedFsm]
    /\ user_drafts = [u \in Users |-> <<>>]
    /\ pending_deletes = [u \in Users |-> <<>>]
    /\ issued = [u \in Users |-> {}]
    /\ out = NoOut
    /\ saveFailures = 0
    /\ session = [u \in Users |-> NoSession]
    /\ tasks = [u \in Users |-> IdleTask]

Init ==
    /\ OWNER_ID = OwnerUser
    /\ scenario \in Scenarios
    /\ \E bound \in BOOLEAN : \E tree \in StartTrees :
          /\ scenario \in { "build", "roster" } => ~bound
          /\ scenario # "tree" => tree = EmptyDict
          /\ storage = InitStorage(bound, tree)
    /\ disk = FileDoc(storage)
    /\ boot = Booted
    /\ fs = IdleFs
    /\ IdleBot

UserCallback ==
    /\ audit.count < MaxAudit
    /\ \E uid \in Acting : \E data \in TokensFor(uid) : Callback(uid, data)

UserMessage ==
    /\ audit.count < MaxAudit
    /\ \E uid \in Acting : \E m \in MsgsFor(uid, fsm[uid].state) : Message(uid, m)

Next == UserCallback \/ UserMessage

Spec == Init /\ [][Next]_vars

(***************************************************************************)
(* The admin gate                                                          *)
(***************************************************************************)

\* What an event may change besides the record of the event itself.
Kept ==
    << storage, disk, audit, fsm, user_drafts, pending_deletes, issued,
       saveFailures, session >>

\* The event a step delivers, read from its record.
EventMsg(o) ==
    [text |-> IF Len(o.photo) > 0 THEN <<>> ELSE << o.data >>, photo |-> o.photo,
     doc |-> o.doc, fwd |-> <<>>]

\* The handler whose filters the event of record o matches in world w.
MatchedHandler(w, o) ==
    IF o.kind = "callback" THEN CallbackHandler(w, o.uid, o.data)
    ELSE MessageHandler(w, o.uid, EventMsg(o))

\* Neither the owner nor in the admin set when the event arrives.
Unauthorized(w, uid) == uid # w.OWNER_ID /\ uid \notin AdminSet(w)

\* C1, as stated: every event of an actor who is neither the owner nor an
\* admin when it arrives is answered with the denial, no handler runs, and
\* the document, the sessions, the drafts and the audit trail stay as they
\* were.
C1_EveryEventDenied ==
    [][ Unauthorized(World, out'.uid) =>
            /\ out'.handler = "AdminGuard"
            /\ out'.resp = "denied"
            /\ UNCHANGED Kept ]_vars

\* C1, amended: an event of such an actor runs no handler and changes
\* nothing; it is answered with the denial when a handler's filters match
\* it, and is not answered at all when none does.
C1_GateDeniesMatched ==
    [][ Unauthorized(World, out'.uid) =>
            /\ UNCHANGED Kept
            /\ out'.sends = <<>>
            /\ IF MatchedHandler(World, out') = "none"
               THEN out'.handler = "none" /\ out'.resp = "none"
               ELSE out'.handler = "AdminGuard" /\ out'.resp = "denied" ]_vars

\* A removed admin, a session still open, has been denied.
C1_Witness ==
    /\ out.uid = AdminUser
    /\ out.resp = "denied"
    /\ fsm[AdminUser].state # NoState
    /\ Unauthorized(World, AdminUser)

(***************************************************************************)
(* The button-URL step                                                     *)
(***************************************************************************)

UrlHandlers == { "add_btn_url", "m_btn_url" }

HasHttpPrefix(t) == StartsWith(t, "http://") \/ StartsWith(t, "https://")

\* The step left the user in the URL step with nothing collected changed.
UrlStepStays(uid) ==
    /\ fsm'[uid] = fsm[uid]
    /\ user_drafts' = user_drafts
    /\ storage' = storage

\* The step appended one button, the pending label with url, to the end of
\* the open row (the last row of the draft, or a first row; the row of the
\* build session) and left the URL step.
UrlStepAppends(uid, handler, url) ==
    /\ fsm'[uid].state # fsm[uid].state
    /\ IF handler = "add_btn_url"
       THEN LET d == DraftOf(World, uid)
                b == Button(OrEmpty(fsm[uid].data.btn_text), url)
            IN  user_drafts'[uid] =
                    << [d EXCEPT !.buttons = AppendToLastRow(@, b)] >>
       ELSE LET b == TplButton(PyStr(OrEmpty(fsm[uid].data.btn_text)), PyStr(url))
            IN  /\ fsm'[uid].data.row = Append(fsm[uid].data.row, b)
                /\ user_drafts' = user_drafts

\* C2, as stated: in the URL step of either flow, an input that does not
\* start with http:// or https:// leaves the step and what was collected as
\* they were, and an input that does appends one button {pending label, that
\* input} to the open row and leaves the step.
C2_InputPrefixDecides ==
    [][ out'.handler \in UrlHandlers =>
            IF HasHttpPrefix(out'.data)
            THEN UrlStepAppends(out'.uid, out'.handler, out'.data)
            ELSE UrlStepStays(out'.uid) ]_vars

\* C2, amended: the input is stripped of surrounding whitespace first; the
\* stripped text is what is tested for the prefix and what the button gets.
C2_StrippedPrefixDecides ==
    [][ out'.handler \in UrlHandlers =>
            IF HasHttpPrefix(Strip(out'.data))
            THEN UrlStepAppends(out'.uid, out'.handler, Strip(out'.data))
            ELSE UrlStepStays(out'.uid) ]_vars

\* An input with a leading blank was accepted in the build flow and its
\* stripped text stored in a row that already had a button.
C2_Witness ==
    /\ out.handler = "m_btn_url"
    /\ out.data = " https://x"
    /\ fsm[out.uid].state = "BTN_MENU"
    /\ Len(fsm[out.uid].data.row) = 2
    /\ fsm[out.uid].data.row[2] = TplButton(PyStr("Info"), PyStr("https://x"))

(***************************************************************************)
(* The template build session                                              *)
(***************************************************************************)

\* The entry the build session of uid saves, in the document doc.
SavedEntry(doc, data) ==
    TreeGet(DictGet(doc.templates, Str(data.uid)),
            data.game[1], data.cheat[1], data.name[1])

\* C3: a build session that ends with mt:save persists, as the entry's
\* button matrix, the buttons the session had accepted, row by row in entry
\* order: mt:add_in_row keeps the row open, mt:new_row closes a non-empty
\* row, and the save appends the open non-empty row last.
C3_SavedMatrixIsRowMajor ==
    [][ ( /\ out'.handler = "m_btn_menu"
          /\ out'.data = "mt:save"
          /\ out'.resp = "template_saved" ) =>
            EntryField(SavedEntry(disk'.doc, fsm[out'.uid].data), "buttons")
                = ButtonsValue(SessionMatrix(session[out'.uid])) ]_vars

\* C10: a new composition session starts from nothing: after menu:create the
\* draft is the empty draft, and after m:add the session data holds no field
\* of an earlier build (no game, text, pending label, open row, closed rows).
C10_NewSessionStartsEmpty ==
    [][ /\ out'.handler = "create_post" =>
              user_drafts'[out'.uid] = << NewDraft >>
        /\ out'.handler = "m_add_start" =>
              fsm'[out'.uid].data = [EmptyData EXCEPT !.uid = out'.uid] ]_vars

(***************************************************************************)
(* Failed saves                                                            *)
(***************************************************************************)

\* A document without the empty trees that tpls_of leaves behind on reads.
Visible(doc) ==
    [doc EXCEPT !.templates =
        PyDict(SelectSeq(@.items, LAMBDA it : Len(it.v.items) > 0))]

\* C7: when the save of a mutating operation fails, the operation is not
\* applied: afterwards the document in memory is the one last persisted.
C7_FailedSaveNotApplied ==
    [][ saveFailures' > saveFailures =>
            Visible(storage') = Visible(disk'.doc) ]_vars

(***************************************************************************)
(* The template tree                                                       *)
(***************************************************************************)

\* No game map and no cheat map of the tree is empty.
NoEmptyContainers(tree) ==
    \A i \in 1..Len(tree.items) :
        LET g == tree.items[i].v
        IN  /\ Len(g.items) > 0
            /\ \A j \in 1..Len(g.items) : Len(g.items[j].v.items) > 0

\* C4: after a delete, among saves and deletes in any order, no game map
\* and no cheat map of the actor's tree is empty, in memory or in the file:
\* the last name takes its cheat map with it, the last cheat its game map.
C4_DeleteLeavesNoEmptyContainer ==
    out.handler = "delete_template_confirm" =>
        /\ NoEmptyContainers(tpls_of(World, out.uid))
        /\ NoEmptyContainers(DictGetOr(disk.doc.templates, Str(out.uid), EmptyDict))

\* A delete took the only name of cheat y: the cheat map went, and the game
\* map stayed with cheat x and its two names.
C4_Witness ==
    /\ out.handler = "delete_template_confirm"
    /\ out.resp = "deleted"
    /\ audit.count = 1
    /\ audit.tail[1].arg = << "a", "y", "m" >>
    /\ list_cheats(World, out.uid, 0) = << "x" >>
    /\ list_names(World, out.uid, 0, 0) = << "m", "n" >>
    /\ disk.doc = storage

\* The handlers of the tokens that address a template by three indices.
IndexHandlers == { "choose_name", "tpl_preview", "tpl_send" }

InRange(i, seq) == 0 <= i /\ i < Len(seq)

\* One of the three indices is out of range of the sorted listing at its
\* level, as the listings are when the event arrives.
OutOfRange(w, uid, ix) ==
    \/ ~InRange(ix[1], list_games(w, uid))
    \/ ~InRange(ix[2], list_cheats(w, uid, ix[1]))
    \/ ~InRange(ix[3], list_names(w, uid, ix[1], ix[2]))

\* C5: an open, preview or send token with an index out of range of the
\* current listing is answered as not found (a send without a bound channel:
\* as that); it resolves to no entry, sends nothing and does not end in an
\* unhandled failure.
C5_StaleIndexIsNotFound ==
    ( /\ out.handler \in IndexHandlers
      /\ Len(PayloadInts(out.data, 3)) = 3
      /\ OutOfRange(World, out.uid, PayloadInts(out.data, 3)) ) =>
        /\ out.resp \in { "not_found", "no_channel" }
        /\ out.sends = <<>>
        /\ out.shown = <<>>

(***************************************************************************)
(* load_storage and save_storage, step by step                             *)
(*                                                                         *)
(* storage is the document handed to save_storage, disk the content of     *)
(* storage.json, fs.tmp the content of the temporary file.  The process    *)
(* may crash between any two steps; a later start loads what is in         *)
(* storage.json.                                                           *)
(***************************************************************************)

\* In how many pieces the text of a document reaches a file.
MaxChunks == 2

\* The content of a file after n pieces of the text of doc.
Written(doc, n) ==
    IF n = MaxChunks THEN FileDoc(doc)
    ELSE [kind |-> "partial", doc |-> doc, n |-> n]

\* load_storage without the loop that adds the missing keys
load_storage_AsRead(file) ==
    IF file.kind = "json" THEN file.doc ELSE DEFAULT_STORAGE

\* load_storage: the document of the file when it parses to an object, {}
\* otherwise, and each missing key of DEFAULT_STORAGE added.
load_storage(file) ==
    LET data == IF file.kind = "json" THEN file.doc ELSE << >>
    IN  [k \in DOMAIN DEFAULT_STORAGE \cup DOMAIN data |->
            IF k \in DOMAIN data THEN data[k] ELSE DEFAULT_STORAGE[k]]

OnlyFsAndDisk ==
    UNCHANGED << OWNER_ID, storage, audit, fsm, user_drafts, pending_deletes,
                 issued, out, saveFailures, boot, scenario, session, tasks >>

\* tempfile.mkstemp
SaveMkstemp ==
    /\ fs.pc = "idle"
    /\ fs' = [fs EXCEPT !.pc = "write", !.tmp = Written(storage, 0), !.n = 0,
                        !.old = disk]
    /\ disk' = disk
    /\ OnlyFsAndDisk

\* The text written into storage.json itself.
SaveWrite_InPlace ==
    /\ fs.pc = "write"
    /\ fs.n < MaxChunks
    /\ fs' = [fs EXCEPT !.n = @ + 1]
    /\ disk' = Written(storage, fs.n + 1)
    /\ OnlyFsAndDisk

\* f.write, f.flush: a piece of the text reaches the temporary file
SaveWrite ==
    /\ fs.pc = "write"
    /\ fs.n < MaxChunks
    /\ fs' = [fs EXCEPT !.n = @ + 1, !.tmp = Written(storage, fs.n + 1)]
    /\ disk' = disk
    /\ OnlyFsAndDisk

\* os.fsync and the end of the with block
SaveFsync ==
    /\ fs.pc = "write"
    /\ fs.n = MaxChunks
    /\ fs' = [fs EXCEPT !.pc = "replace"]
    /\ disk' = disk
    /\ OnlyFsAndDisk

\* os.replace(tmp_path, STORAGE_FILE): one step
SaveReplace ==
    /\ fs.pc = "replace"
    /\ disk' = fs.tmp
    /\ fs' = [fs EXCEPT !.pc = "cleanup", !.tmp = FileMissing, !.renamed = TRUE]
    /\ OnlyFsAndDisk

\* finally: the temporary file removed if it is there, after the replace or
\* after an exception of the write, the fsync or the replace
SaveCleanup ==
    /\ fs.pc = "cleanup"
    /\ fs' = [fs EXCEPT !.pc = "done", !.tmp = FileMissing]
    /\ disk' = disk
    /\ OnlyFsAndDisk

SaveRaise ==
    /\ fs.pc \in { "write", "replace" }
    /\ fs' = [fs EXCEPT !.pc = "cleanup"]
    /\ disk' = disk
    /\ OnlyFsAndDisk

\* The process dies; the files stay as they are.
SaveCrash ==
    /\ fs.pc \in { "write", "replace", "cleanup" }
    /\ fs' = [fs EXCEPT !.pc = "crashed", !.crashed = TRUE]
    /\ disk' = disk
    /\ OnlyFsAndDisk

\* The next start: load_storage
LoadAfter ==
    /\ fs.pc \in { "crashed", "done" }
    /\ fs' = [fs EXCEPT !.pc = "loaded", !.loaded = << load_storage(disk) >>]
    /\ disk' = disk
    /\ OnlyFsAndDisk

\* The documents saved and found in the file.
SaveDocs == { InitStorage(b, t) : b \in BOOLEAN, t \in StartTrees }

InitSave ==
    /\ OWNER_ID = OwnerUser
    /\ scenario = "save"
    /\ storage \in SaveDocs
    /\ disk \in { FileMissing, FileCorrupt } \cup { FileDoc(d) : d \in SaveDocs }
    /\ boot = Booted
    /\ fs = IdleFs
    /\ IdleBot

NextSave ==
    \/ SaveMkstemp
    \/ SaveWrite
    \/ SaveFsync
    \/ SaveReplace
    \/ SaveCleanup
    \/ SaveRaise
    \/ SaveCrash
    \/ LoadAfter

SpecSave == InitSave /\ [][NextSave]_vars

\* C6: save is atomic with respect to crashes.  Until the rename the file
\* storage.json is what it was before the save, from the rename on it is
\* the complete new document; so it is at every crash point, and a load
\* after a crash gets the old or the new document, never a partial one.
C6_SaveIsAtomic ==
    LET file == IF fs.renamed THEN FileDoc(storage) ELSE fs.old
    IN  /\ fs.pc # "idle" => disk = file
        /\ fs.pc = "loaded" => fs.loaded = << load_storage(file) >>

\* A crash with part of the text in the temporary file, and the load after
\* it got the old document, which is not the one being saved.
C6_Witness ==
    /\ fs.pc = "loaded"
    /\ fs.crashed
    /\ ~fs.renamed
    /\ fs.tmp.kind = "partial"
    /\ fs.tmp.n = 1
    /\ fs.old.kind = "json"
    /\ fs.old.doc # storage
    /\ fs.loaded = << fs.old.doc >>

(***************************************************************************)
(* The start of the process: load, migration, admin seeding                *)
(***************************************************************************)

\* ADMIN_IDS of the environment
ADMIN_IDS == << AdminUser >>

\* _looks_like_user_key
looks_like_user_key(k) ==
    LET t == LStripChar(k, "-")
    IN  IsDigit(t) /\ Len(t) >= 5

\* migrate_templates_per_user, the save included
migrate_templates_per_user(w) ==
    LET tpls == w.storage.templates
    IN  IF Len(tpls.items) = 0 THEN w
        ELSE IF \A i \in 1..Len(tpls.items) : looks_like_user_key(tpls.items[i].k)
        THEN w
        ELSE LET ns == IF w.OWNER_ID # 0 THEN Str(w.OWNER_ID) ELSE "0"
                 w1 == [w EXCEPT !.storage.templates = PyDict(<< [k |-> ns, v |-> tpls] >>)]
             IN  save_storage(w1, TRUE)

\* seed_admins, and the save that follows
seed_admins(w) ==
    LET seed == AdminSet(w) \cup { ADMIN_IDS[i] : i \in 1..Len(ADMIN_IDS) }
                \cup (IF w.OWNER_ID # 0 THEN { w.OWNER_ID } ELSE {})
    IN  save_storage([w EXCEPT !.storage.admins = SortedInts(seed)], TRUE)

\* How many times the process starts.
MaxBoots == 2

OnlyBoot ==
    UNCHANGED << OWNER_ID, audit, fsm, user_drafts, pending_deletes, issued, out,
                 saveFailures, fs, scenario, session, tasks >>

\* storage = load_storage()
BootLoad ==
    /\ boot.pc = "load"
    /\ storage' = load_storage(disk)
    /\ disk' = disk
    /\ boot' = [boot EXCEPT !.pc = "migrate"]
    /\ OnlyBoot

\* migrate_templates_per_user()
BootMigrate ==
    /\ boot.pc = "migrate"
    /\ LET w == migrate_templates_per_user(World)
       IN  /\ storage' = w.storage
           /\ disk' = w.disk
           /\ boot' = [boot EXCEPT !.pc = "seed", !.prev = << w.storage.templates >>]
    /\ OnlyBoot

\* the admins fixed and saved; the bot runs
BootSeed ==
    /\ boot.pc = "seed"
    /\ LET w == seed_admins(World)
       IN  /\ storage' = w.storage
           /\ disk' = w.disk
    /\ boot' = [boot EXCEPT !.pc = "running"]
    /\ OnlyBoot

\* The process is stopped and started again.
Restart ==
    /\ boot.pc = "running"
    /\ boot.boots < MaxBoots
    /\ boot' = [boot EXCEPT !.pc = "load", !.boots = @ + 1]
    /\ UNCHANGED << storage, disk >>
    /\ OnlyBoot

\* The owner ids of the configurations: none, one of four digits, one of five.
OwnerIds == { 0, 4321, OwnerUser }

\* The files found at the first start: none, one that does not parse, one
\* that holds a list, objects that lack sections, and whole documents.
\* The templates sections found in storage.json at the first start: none,
\* the legacy layout (also with a game named in digits), the layout by user.
LegacyTree == TreePut(EmptyDict, "a", "x", "m", Leaf)

DigitsTree == TreePut(EmptyDict, "12345", "x", "m", Leaf)

TemplatesSections ==
    { EmptyDict, LegacyTree, DigitsTree,
      TreePut(LegacyTree, "12345", "x", "m", Leaf),
      PyDict(<< [k |-> Str(AdminUser), v |-> LegacyTree] >>) }

BootFiles ==
    { FileMissing, FileCorrupt, FileOther,
      FileDoc([admins |-> << AdminUser >>]),
      FileDoc([templates |-> LegacyTree, channels |-> EmptyDict]) }
    \cup { FileDoc([DEFAULT_STORAGE EXCEPT !.templates = t, !.admins = a]) :
             t \in TemplatesSections, a \in { <<>>, << AdminUser >> } }

InitMigrate ==
    /\ OWNER_ID \in OwnerIds
    /\ scenario = "start"
    /\ disk \in BootFiles
    /\ storage = DEFAULT_STORAGE
    /\ boot = [pc |-> "load", boots |-> 1, prev |-> <<>>]
    /\ fs = IdleFs
    /\ IdleBot

NextMigrate ==
    \/ BootLoad
    \/ BootMigrate
    \/ BootSeed
    \/ Restart

SpecMigrate == InitMigrate /\ [][NextMigrate]_vars

\* C8: the migration is idempotent, for every legacy document and with or
\* without a configured owner: run on the templates section that an earlier
\* run left, it leaves that section as it is.
C8_MigrationIdempotent ==
    [][ ( /\ boot.pc = "migrate"
          /\ boot'.pc = "seed"
          /\ boot.prev = << storage.templates >> ) =>
            storage'.templates = storage.templates ]_vars

(***************************************************************************)
(* Export by one admin, import by another                                  *)
(***************************************************************************)

\* Equality of Python values: dictionaries whatever the order of their keys.
RECURSIVE PyEq(_, _)
PyEq(a, b) ==
    IF a.tag # b.tag THEN FALSE
    ELSE CASE a.tag = "dict" ->
                /\ Len(a.items) = Len(b.items)
                /\ \A i \in 1..Len(a.items) :
                      /\ DictHas(b, a.items[i].k)
                      /\ PyEq(a.items[i].v, DictGet(b, a.items[i].k))
           [] a.tag = "list" ->
                /\ Len(a.es) = Len(b.es)
                /\ \A i \in 1..Len(a.es) : PyEq(a.es[i], b.es[i])
           [] OTHER -> a = b

\* The entries of the exported trees: a plain text or one with a quote and
\* a backslash, with or without a photo, no button or two in one or two rows.
QuotedText == "say \"hi\" \\ ok"

BuyButton == TplButton(PyStr("Buy"), PyStr("https://x"))

InfoButton == TplButton(PyStr("Info"), PyStr("https://x"))

ExportLeaves ==
    { Entry(PyStr(t), ph, ButtonsValue(m)) :
        t \in { "Hello", QuotedText },
        ph \in { PyNone, PyStr("p1") },
        m \in { <<>>, << << BuyButton, InfoButton >> >>,
                << << BuyButton >>, << InfoButton >> >> } }

SecondPaths == { << "a", "x", "n" >>, << "a", "y", "m" >>, << "B", "x", "m" >> }

\* One entry, two entries, and the trees with an empty map that an import
\* can leave.
ExportTrees ==
    { TreePut(EmptyDict, "a", "x", "m", e) : e \in ExportLeaves }
    \cup { TreePut(TreePut(EmptyDict, "a", "x", "m", e), q[1], q[2], q[3], Leaf) :
             e \in ExportLeaves, q \in SecondPaths }
    \cup { EmptyDict,
           PyDict(<< [k |-> "a", v |-> EmptyDict] >>),
           PyDict(<< [k |-> "a", v |-> PyDict(<< [k |-> "x", v |-> EmptyDict] >>)] >>) }

InitExport ==
    /\ OWNER_ID = OwnerUser
    /\ scenario = "export"
    /\ \E tree \in ExportTrees :
          storage = [DEFAULT_STORAGE EXCEPT
                        !.admins = << OwnerUser, AdminUser >>,
                        !.templates = PyDict(<< [k |-> Str(AdminUser), v |-> tree] >>)]
    /\ disk = FileDoc(storage)
    /\ boot = Booted
    /\ fs = IdleFs
    /\ IdleBot

\* The owner asks to import.
ImportStart ==
    /\ fsm[OwnerUser].state = NoState
    /\ Callback(OwnerUser, "m:import")

\* The admin exports.
ExportTree ==
    /\ audit.count < MaxAudit
    /\ Callback(AdminUser, "m:export")

\* The owner sends the file the admin has just been sent.
ImportFile ==
    /\ out.handler = "m_export"
    /\ out.resp = "exported"
    /\ Message(OwnerUser, DocMsg(out.shown))

NextExport == ImportStart \/ ExportTree \/ ImportFile

SpecExport == InitExport /\ [][NextExport]_vars

\* C9: a tree exported and the payload imported into an empty tree gives a
\* tree equal to the original: the same paths and, leaf by leaf, the same
\* text, photo reference and button matrix.
C9_ExportImportRoundTrip ==
    ( out.handler = "m_import_file" /\ out.resp = "imported" ) =>
        PyEq(tpls_of(World, OwnerUser), tpls_of(World, AdminUser))

\* Imported: two games, the entry with the quoted text, a photo and two rows.
C9_Witness ==
    /\ out.handler = "m_import_file"
    /\ out.resp = "imported"
    /\ audit.tail[1].arg = << 2 >>
    /\ TreeHas(tpls_of(World, OwnerUser), "B", "x", "m")
    /\ TreeHas(tpls_of(World, OwnerUser), "a", "x", "m")
    /\ TreeGet(tpls_of(World, OwnerUser), "a", "x", "m")
           = Entry(PyStr(QuotedText), PyStr("p1"),
                   ButtonsValue(<< << BuyButton >>, << InfoButton >> >>))

(***************************************************************************)
(* The end of a compose session                                            *)
(***************************************************************************)

\* C11: returning to the main menu cancels the compose session completely:
\* right after menu:back the user has no FSM state, no session data and no
\* post draft.
C11_MainMenuCancelsSession ==
    [][ out'.handler = "menu_back" =>
            /\ fsm'[out'.uid] = ClearedFsm
            /\ user_drafts'[out'.uid] = <<>> ]_vars

\* C12: a draft is destroyed when it is sent: right after a successful
\* compose:send the user has no draft, and a compose:send that follows it
\* directly does not dispatch again.
C12_SentDraftIsDestroyed ==
    [][ /\ (out'.handler = "compose_actions" /\ out'.resp = "sent") =>
               user_drafts'[out'.uid] = <<>>
        /\ ( /\ out.handler = "compose_actions" /\ out.resp = "sent"
             /\ out'.uid = out.uid /\ out'.data = "compose:send" ) =>
               out'.resp # "sent" ]_vars

(***************************************************************************)
(* The end of a template build session                                     *)
(***************************************************************************)

\* The buttons of a matrix of rows, as a set.
ButtonsOf(rows) == UNION { { rows[i][j] : j \in 1..Len(rows[i]) } : i \in 1..Len(rows) }

\* The buttons of a stored "buttons" value (a list of lists).
StoredButtons(v) == UNION { { v.es[i].es[j] : j \in 1..Len(v.es[i].es) } : i \in 1..Len(v.es) }

\* C13: whichever way a build session is finished, by mt:save or by "0" at
\* the label prompt, the persisted entry contains every button the session
\* had accepted: those of the closed rows and of the open row.
C13_FinishKeepsAcceptedButtons ==
    [][ ( /\ out'.handler \in { "m_btn_menu", "m_btn_text" }
          /\ out'.resp = "template_saved" ) =>
            ButtonsOf(SessionMatrix(session[out'.uid])) \subseteq
              StoredButtons(EntryField(SavedEntry(disk'.doc, fsm[out'.uid].data),
                                       "buttons")) ]_vars

(***************************************************************************)
(* The owner's operations: the admin roster and the audit trail            *)
(*                                                                         *)
(* The bot runs with an owner configured or with none (OWNER_ID = 0), the  *)
(* admin list as the start seeded it.  Every user tries the owner's        *)
(* buttons and answers the admin id prompts.                               *)
(***************************************************************************)

InitRoster ==
    /\ scenario = "owner"
    /\ OWNER_ID \in { 0, OwnerUser }
    /\ storage = [DEFAULT_STORAGE EXCEPT
                     !.admins = IF OWNER_ID = 0 THEN << AdminUser >>
                                ELSE << OwnerUser, AdminUser >>]
    /\ disk = FileDoc(storage)
    /\ boot = Booted
    /\ fs = IdleFs
    /\ IdleBot

SpecRoster == InitRoster /\ [][Next]_vars

\* The user is the owner the environment configured.
ConfiguredOwner(uid) == OWNER_ID # 0 /\ uid = OWNER_ID

\* C14: the admin roster changes only in an event of the configured owner,
\* and the audit trail is returned only to the owner.  The handlers of the
\* admin id prompts test the owner themselves: run for any other user, in
\* whatever step, with any id, they leave the roster and the file alone.
\* With no owner configured nobody passes.
C14_RosterAndAuditOwnerOnly ==
    [][ /\ storage'.admins # storage.admins => ConfiguredOwner(out'.uid)
        /\ disk'.doc.admins # disk.doc.admins => ConfiguredOwner(out'.uid)
        /\ (out'.handler = "owner_audit" /\ out'.resp # "owner_only") =>
               ConfiguredOwner(out'.uid)
        /\ Len(out'.shown) > 0 /\ out'.handler = "owner_audit" =>
               ConfiguredOwner(out'.uid)
        /\ \A u \in Users : ~ConfiguredOwner(u) =>
               \A m \in AdminIdMsgs : \A ok \in BOOLEAN :
                  /\ add_admin(World, u, m, ok).w = World
                  /\ del_admin(World, u, m, ok).w = World
                  /\ owner_audit(World, u).shown = <<>> ]_vars

\* An admin who is not the owner was refused after the owner had changed
\* the roster.
C14_Witness ==
    /\ OWNER_ID = OwnerUser
    /\ audit.count > 0
    /\ out.uid = AdminUser
    /\ is_admin(World, AdminUser)
    /\ out.handler \in { "set_add_admin", "set_del_admin", "owner_audit" }
    /\ out.resp = "owner_only"

\* The admin list is strictly increasing: sorted and without duplicates.
StrictlySorted(seq) == \A i \in 1..(Len(seq) - 1) : seq[i] < seq[i + 1]

\* C16: with an owner configured, the admin list is always sorted, free of
\* duplicates, and holds the owner's id.
C16_AdminsSortedWithOwner ==
    OWNER_ID # 0 =>
        /\ StrictlySorted(storage.admins)
        /\ \E i \in 1..Len(storage.admins) : storage.admins[i] = OWNER_ID

(***************************************************************************)
(* Connecting a channel                                                    *)
(*                                                                         *)
(* The admin, with a channel bound by an earlier run or with none, goes    *)
(* through the settings: forwards a post or names a channel, while the     *)
(* transport answers the admin lookups either way or fails.                *)
(***************************************************************************)

InitBind ==
    /\ scenario = "bind"
    /\ OWNER_ID = OwnerUser
    /\ \E bound \in BOOLEAN : storage = InitStorage(bound, EmptyDict)
    /\ disk = FileDoc(storage)
    /\ boot = Booted
    /\ fs = IdleFs
    /\ IdleBot

SpecBind == InitBind /\ [][Next]_vars

\* The channel and the title a document binds to a user.
Binding(doc, uid) ==
    << DictGetOr(doc.channels, Str(uid), PyNone),
       DictGetOr(doc.channel_titles, Str(uid), PyNone) >>

\* The event asked the transport whether its user administers a channel.
Asked(o) == o.handler \in LookupHandlers /\ Len(o.lookup) > 0

\* C15: a user's binding is set to a channel, in memory or in the file, only
\* in an event of that user in which the admin lookup reported the user as
\* an administrator of that channel.  When the lookup says otherwise or
\* raises, the answer is the refusal and nothing changes: the binding, the
\* title, the file, the waiting step.  When the user is an administrator and
\* the bot is not, the binding is written all the same, and the answer of
\* the finished handler carries the warning.
C15_BindingNeedsChannelAdmin ==
    [][ /\ \A u \in Users : \A doc \in { << storage, storage' >>, << disk.doc, disk'.doc >> } :
              ( /\ Binding(doc[2], u) # Binding(doc[1], u)
                /\ Binding(doc[2], u)[1] # PyNone ) =>
                   /\ out'.uid = u
                   /\ Asked(out')
                   /\ out'.lookup[1].user = "admin"
                   /\ Binding(doc[2], u)[1] = PyInt(out'.lookup[1].chat)
        /\ (Asked(out') /\ out'.lookup[1].user # "admin") =>
              /\ out'.resp = "not_channel_admin"
              /\ storage' = storage
              /\ disk' = disk
              /\ fsm' = fsm
              /\ audit' = audit
        /\ (Asked(out') /\ out'.lookup[1].user = "admin"
                        /\ out'.lookup[1].bot # "admin") =>
              /\ Binding(storage', out'.uid)[1] = PyInt(out'.lookup[1].chat)
              /\ out'.resp \in { "channel_bound_bot_not_admin", "unhandled:OSError",
                                 "get_channel_failed" }
              /\ saveFailures' = saveFailures =>
                    /\ out'.resp = "channel_bound_bot_not_admin"
                    /\ Binding(disk'.doc, out'.uid)[1] = PyInt(out'.lookup[1].chat) ]_vars

\* The admin, who had connected the new channel, was refused at a later try:
\* the lookup did not report an administrator, and the binding is still the
\* one written before.
C15_Witness ==
    /\ Asked(out)
    /\ out.lookup[1].user # "admin"
    /\ out.resp = "not_channel_admin"
    /\ Binding(storage, out.uid)[1] = PyInt(NewsId)
    /\ fsm[out.uid].state \in { "WAIT_FORWARD_FROM_CHANNEL", "WAIT_CHANNEL_USERNAME" }

(***************************************************************************)
(* Deleting a template that is gone                                        *)
(***************************************************************************)

\* The event of record o asks to delete, by an index of the list the user
\* was shown, a template that the user's tree in world w does not hold.
DeletesMissingLeaf(w, o) ==
    /\ o.handler = "delete_template_confirm"
    /\ LET ix == ColonInt(o.data)
           items == PendingOf(w, o.uid)
       IN  /\ Len(ix) > 0
           /\ ix[1] >= 0 /\ ix[1] < Len(items)
           /\ LET path == items[ix[1] + 1]
              IN  ~TreeHas(tpls_of(w, o.uid), path[1], path[2], path[3])

\* C17: a delete whose target template is no longer in the user's tree ends
\* as not found: the tree and the file are as before, no audit line is
\* written, and the user is not told that a template was deleted.
C17_DeleteOfMissingLeafIsNotFound ==
    [][ DeletesMissingLeaf(World, out') =>
            /\ out'.resp # "deleted"
            /\ Visible(storage') = Visible(storage)
            /\ disk' = disk
            /\ audit' = audit ]_vars

(***************************************************************************)
(* Navigation tokens                                                       *)
(*                                                                         *)
(* The admin, with templates saved and a channel bound, sends navigation   *)
(* tokens of every kind, well formed and not.                              *)
(***************************************************************************)

InitTokens ==
    /\ scenario = "tokens"
    /\ OWNER_ID = OwnerUser
    /\ \E tree \in StartTrees \ { EmptyDict } : storage = InitStorage(TRUE, tree)
    /\ disk = FileDoc(storage)
    /\ boot = Booted
    /\ fs = IdleFs
    /\ IdleBot

SpecTokens == InitTokens /\ [][Next]_vars

\* The number of indices a token of each kind carries.
NavArity(data) ==
    CASE StartsWith(data, "tpl:g#") \/ StartsWith(data, "tpl:back:cheats#") -> 1
      [] StartsWith(data, "tpl:c#") \/ StartsWith(data, "tpl:back:templates#") -> 2
      [] StartsWith(data, "tpl:n#") \/ StartsWith(data, "tpl:prev#")
            \/ StartsWith(data, "tpl:send#") -> 3
      [] OTHER -> 0

\* A navigation token whose index part, after the first '#', has not the
\* number of fields of its kind, or has a field that is no number.
MalformedNav(data) ==
    /\ NavArity(data) > 0
    /\ LET fields == Tail(Split(data, "#"))
       IN  \/ Len(fields) # NavArity(data)
           \/ \E i \in 1..Len(fields) : ~IsDigit(fields[i])

\* C18: every malformed navigation token is rejected as malformed: no menu
\* is rendered from it, nothing is shown or sent, and no state changes.
C18_MalformedTokenRejected ==
    [][ (out'.kind = "callback" /\ MalformedNav(out'.data)) =>
            /\ out'.resp = "malformed"
            /\ out'.sends = <<>>
            /\ out'.shown = <<>>
            /\ UNCHANGED Kept ]_vars

(***************************************************************************)
(* Import as a merge                                                       *)
(*                                                                         *)
(* The admin, with templates of an earlier run or with none, sends files   *)
(* for import, one after the other.                                        *)
(***************************************************************************)

InitImport ==
    /\ scenario = "import"
    /\ OWNER_ID = OwnerUser
    /\ \E tree \in StartTrees : storage = InitStorage(FALSE, tree)
    /\ disk = FileDoc(storage)
    /\ boot = Booted
    /\ fs = IdleFs
    /\ IdleBot

SpecImport == InitImport /\ [][Next]_vars

\* The tree of a user in a document.
TreeOf(doc, uid) == DictGetOr(doc.templates, Str(uid), EmptyDict)

\* The positions of the containers among the members of a container.
Containers(d) == { i \in 1..Len(d.items) : d.items[i].v.tag = "dict" }

\* The paths of the well-formed leaves of a value whose root is a container:
\* a container under a container under a container.
LeafPaths(t) ==
    UNION { UNION { { << t.items[i].k, t.items[i].v.items[j].k,
                         t.items[i].v.items[j].v.items[k].k >> :
                      k \in Containers(t.items[i].v.items[j].v) } :
                    j \in Containers(t.items[i].v) } :
            i \in Containers(t) }

\* The games of a tree, and its cheats with their games.
Games(t) == { t.items[i].k : i \in 1..Len(t.items) }

Cheats(t) ==
    UNION { { << t.items[i].k, t.items[i].v.items[j].k >> :
              j \in 1..Len(t.items[i].v.items) } :
            i \in Containers(t) }

\* The entry a well-formed incoming leaf stands for: its text, photo and
\* buttons, those it lacks being "", None and [].
LeafAsEntry(leaf) ==
    Entry(IF DictHas(leaf, "text") THEN DictGet(leaf, "text") ELSE PyStr(""),
          IF DictHas(leaf, "photo") THEN DictGet(leaf, "photo") ELSE PyNone,
          IF DictHas(leaf, "buttons") THEN DictGet(leaf, "buttons") ELSE PyList(<<>>))

\* The tree `result` is the merge of the payload into the tree `existing`,
\* and count the number of leaves written: the leaves are those of both,
\* the incoming ones over the existing ones, and the games and cheats are
\* those of the existing tree and those of the leaves written.
IsReferenceMerge(existing, payload, result, count) ==
    /\ LeafPaths(result) = LeafPaths(existing) \cup LeafPaths(payload)
    /\ \A p \in LeafPaths(payload) :
          TreeGet(result, p[1], p[2], p[3]) = LeafAsEntry(TreeGet(payload, p[1], p[2], p[3]))
    /\ \A p \in LeafPaths(existing) \ LeafPaths(payload) :
          TreeGet(result, p[1], p[2], p[3]) = TreeGet(existing, p[1], p[2], p[3])
    /\ \A i \in 1..Len(result.items) :
          /\ i \in Containers(result)
          /\ \A j \in 1..Len(result.items[i].v.items) :
                /\ j \in Containers(result.items[i].v)
                /\ \A k \in 1..Len(result.items[i].v.items[j].v.items) :
                      k \in Containers(result.items[i].v.items[j].v)
    /\ Games(result) = Games(existing) \cup { p[1] : p \in LeafPaths(payload) }
    /\ Cheats(result) = Cheats(existing) \cup { << p[1], p[2] >> : p \in LeafPaths(payload) }
    /\ count = Cardinality(LeafPaths(payload))

\* The event of record o imports a file whose root is a container.
ImportsContainer(o) ==
    /\ o.handler = "m_import_file"
    /\ Len(o.doc) > 0
    /\ Len(JsonLoads(o.doc[1])) > 0
    /\ JsonLoads(o.doc[1])[1].tag = "dict"

\* C19: the import is the reference merge.  For every existing tree and
\* every file whose root is a container the import goes through without
\* aborting, and the user's tree, in memory and in the file, is the existing
\* tree with each well-formed incoming leaf written over the leaf at its
\* path, every other leaf as it was, every value that is no container at
\* the level of games, cheats or entries skipped; the count reported is the
\* number of leaves written.
C19_ImportIsReferenceMerge ==
    [][ (ImportsContainer(out') /\ saveFailures' = saveFailures) =>
            LET payload == JsonLoads(out'.doc[1])[1]
                existing == TreeOf(storage, out'.uid)
                line == audit'.tail[Len(audit'.tail)]
            IN  /\ out'.resp = "imported"
                /\ line.act = "import"
                /\ IsReferenceMerge(existing, payload, TreeOf(storage', out'.uid),
                                    line.arg[1])
                /\ TreeOf(disk'.doc, out'.uid) = TreeOf(storage', out'.uid) ]_vars

\* C20: after an import no game map and no cheat map of the user's tree in
\* the file is empty.
C20_ImportLeavesNoEmptyContainer ==
    [][ (out'.handler = "m_import_file" /\ out'.resp = "imported") =>
            NoEmptyContainers(TreeOf(disk'.doc, out'.uid)) ]_vars

(***************************************************************************)
(* Links of persisted buttons                                              *)
(***************************************************************************)

\* The users' trees of a document.
TreesOf(doc) == { doc.templates.items[i].v : i \in 1..Len(doc.templates.items) }

\* The entries of a tree.
EntriesOf(tree) == { TreeGet(tree, p[1], p[2], p[3]) : p \in LeafPaths(tree) }

\* The urls of the buttons of an entry.
UrlsOf(entry) == { DictGet(b, "u") : b \in StoredButtons(DictGet(entry, "buttons")) }

\* C21: in every reachable state every link button of every template entry
\* in the file has a url that starts with http:// or https://, whether the
\* build flow wrote the entry or an import did.
C21_PersistedUrlsAreLinks ==
    disk.kind = "json" =>
        \A tree \in TreesOf(disk.doc) : \A entry \in EntriesOf(tree) :
            \A u \in UrlsOf(entry) : u.tag = "str" /\ UrlAccepted(u.s)

(***************************************************************************)
(* Names of the tree                                                       *)
(*                                                                         *)
(* The admin builds templates and answers the prompts for the game, the    *)
(* cheat and the name with a name, with white space or with a photo.       *)
(***************************************************************************)

InitNames ==
    /\ scenario = "names"
    /\ OWNER_ID = OwnerUser
    /\ storage = InitStorage(FALSE, EmptyDict)
    /\ disk = FileDoc(storage)
    /\ boot = Booted
    /\ fs = IdleFs
    /\ IdleBot

SpecNames == InitNames /\ [][Next]_vars

\* The names of a tree: of its games, its cheats and its templates.
NamesOf(tree) ==
    Games(tree) \cup { c[2] : c \in Cheats(tree) } \cup { p[3] : p \in LeafPaths(tree) }

\* C22: in every reachable state every game name, cheat name and template
\* name of the trees in the file is a non-empty string, whatever was sent at
\* the prompts of the build flow.
C22_PersistedNamesNonEmpty ==
    disk.kind = "json" =>
        \A tree \in TreesOf(disk.doc) : \A n \in NamesOf(tree) : n # ""

(***************************************************************************)
(* Two actors at once                                                      *)
(*                                                                         *)
(* The event loop runs one handler per actor and switches between them at  *)
(* an await.  Every handler that changes the document awaits before its    *)
(* change (the FSM data, the download, the admin lookups) and after its    *)
(* log line (state.clear(), the answer), never between the change and      *)
(* save_storage: the change, the save and the log line are one step.       *)
(***************************************************************************)

Actors == { OwnerUser, AdminUser }

\* The document a resumed handler works on: the module's storage object as
\* it is then.
storage_at_Start(w, task) == task.seen[1]

storage_at(w, task) == w.storage

\* The part of a document that is the user's: the tree and the binding.
OwnPart(doc, uid) ==
    [tree |-> TreeOf(doc, uid),
     channel |-> DictGetOr(doc.channels, Str(uid), PyNone),
     title |-> DictGetOr(doc.channel_titles, Str(uid), PyNone)]

OnlyTasks ==
    UNCHANGED << OWNER_ID, storage, disk, audit, fsm, user_drafts, pending_deletes,
                 issued, out, saveFailures, boot, fs, scenario, session >>

\* The handler of an event of an actor is started and runs to its first
\* await.  An actor makes one change.
TaskStart ==
    /\ \E uid \in Actors :
          /\ tasks[uid].pc = "idle"
          /\ tasks[uid].left = <<>>
          /\ \/ \E data \in TokensFor(uid) :
                   tasks' = [tasks EXCEPT ![uid] =
                               [@ EXCEPT !.pc = "started", !.kind = "callback",
                                         !.data = data, !.seen = << storage >>]]
             \/ \E m \in MsgsFor(uid, fsm[uid].state) :
                   tasks' = [tasks EXCEPT ![uid] =
                               [@ EXCEPT !.pc = "started", !.kind = "message",
                                         !.m = m, !.seen = << storage >>]]
    /\ OnlyTasks

\* The world a resumed handler of the user works in.
TaskWorld(uid) == [World EXCEPT !.storage = storage_at(World, tasks[uid])]

\* What the resumed handler leaves, and the user's task after it.
Resumed(r, uid, data) ==
    /\ Leave(r, uid, data)
    /\ out' = out
    /\ tasks' = [tasks EXCEPT ![uid] =
                   [@ EXCEPT !.pc = "replying", !.seen = <<>>,
                             !.left = IF r.w.audit.count > audit.count
                                      THEN << OwnPart(r.w.storage, uid) >>
                                      ELSE @,
                             !.crossed = IF r.w.audit.count > audit.count
                                         THEN storage # tasks[uid].seen[1]
                                         ELSE @]]

ResumeCallback(uid, data) ==
    LET h == CallbackHandler(TaskWorld(uid), uid, data)
    IN  \E env \in Envs(h) :
            Resumed(AdminGuard(TaskWorld(uid), uid, h,
                               RunCallback(TaskWorld(uid), uid, data, h, env)),
                    uid, data)

ResumeMessage(uid, m) ==
    LET h == MessageHandler(TaskWorld(uid), uid, m)
    IN  \E env \in Envs(h) :
            Resumed(AdminGuard(TaskWorld(uid), uid, h,
                               RunMessage(TaskWorld(uid), uid, m, h, env)),
                    uid, OrEmpty(m.text))

\* The handler is resumed and runs to its next await: it reads the
\* document, changes it, saves it and writes its log line.
TaskRun ==
    \E uid \in Actors :
       /\ tasks[uid].pc = "started"
       /\ IF tasks[uid].kind = "callback"
          THEN ResumeCallback(uid, tasks[uid].data)
          ELSE ResumeMessage(uid, tasks[uid].m)

\* The handler's last awaits return: the session is cleared and the answer
\* is sent.
TaskFinish ==
    /\ \E uid \in Actors :
          /\ tasks[uid].pc = "replying"
          /\ tasks' = [tasks EXCEPT ![uid] =
                         [IdleTask EXCEPT !.left = tasks[uid].left,
                                          !.crossed = tasks[uid].crossed]]
    /\ OnlyTasks

NextTwo == TaskStart \/ TaskRun \/ TaskFinish

InitTwo ==
    /\ scenario = "two"
    /\ OWNER_ID = OwnerUser
    /\ storage =
         [DEFAULT_STORAGE EXCEPT
            !.admins = << OwnerUser, AdminUser >>,
            !.channels = OneDict(Str(OwnerUser), PyInt(ChannelId)),
            !.channel_titles = OneDict(Str(OwnerUser), PyStr("Channel")),
            !.templates =
                PyDict(<< Member(Str(OwnerUser), TreePut(EmptyDict, "a", "x", "m", Leaf)),
                          Member(Str(AdminUser), TreePut(EmptyDict, "a", "x", "m", Leaf)) >>)]
    /\ disk = FileDoc(storage)
    /\ boot = Booted
    /\ fs = IdleFs
    /\ IdleBot

SpecTwo == InitTwo /\ [][NextTwo]_vars

\* Every handler has returned.
Quiet == \A uid \in Actors : tasks[uid].pc = "idle"

\* C23: however the handlers of two actors interleave, once the handlers
\* have returned and every save has succeeded, the file holds, for each
\* actor, the actor's part of the document as the actor's last change
\* (saving or deleting a template, an import, binding or unbinding a
\* channel) left it: no change is lost to the other actor's save.
C23_NoLostUpdate ==
    ( Quiet /\ saveFailures = 0 /\ disk.kind = "json" ) =>
        \A uid \in Actors :
            tasks[uid].left # <<>> => OwnPart(disk.doc, uid) = tasks[uid].left[1]

\* Both actors have changed their parts, the later one by a handler that
\* was started before the other's change and resumed after it.
C23_Witness ==
    /\ Quiet
    /\ saveFailures = 0
    /\ \A uid \in Actors : tasks[uid].left # <<>>
    /\ \E uid \in Actors : tasks[uid].crossed
    /\ \A uid \in Actors : OwnPart(disk.doc, uid) # OwnPart(InitStorage(FALSE, EmptyDict), uid)

(***************************************************************************)
(* Privacy of the actors' parts                                            *)
(*                                                                         *)
(* The owner and the admin have each a template of their own, and the      *)
(* owner a channel.  The admin browses, previews, sends, saves, deletes,   *)
(* exports and imports templates, binds and unbinds a channel, and asks    *)
(* for /storage; the owner unbinds the channel.                            *)
(***************************************************************************)

InitPrivate ==
    /\ scenario = "private"
    /\ OWNER_ID = OwnerUser
    /\ storage =
         [DEFAULT_STORAGE EXCEPT
            !.admins = << OwnerUser, AdminUser >>,
            !.channels = OneDict(Str(OwnerUser), PyInt(ChannelId)),
            !.channel_titles = OneDict(Str(OwnerUser), PyStr("Channel")),
            !.templates =
                PyDict(<< Member(Str(OwnerUser), TreePut(EmptyDict, "a", "x", "m", Leaf)),
                          Member(Str(AdminUser), TreePut(EmptyDict, "b", "y", "n", Leaf)) >>)]
    /\ disk = FileDoc(storage)
    /\ boot = Booted
    /\ fs = IdleFs
    /\ IdleBot

SpecPrivate == InitPrivate /\ [][Next]_vars

\* The event of record o, of an actor, leaves the parts of the other actors
\* as they were, in memory and in the file.
OthersUntouched(o) ==
    \A b \in Actors \ { o.uid } :
        /\ OwnPart(storage', b) = OwnPart(storage, b)
        /\ OwnPart(disk'.doc, b) = OwnPart(disk.doc, b)

\* What the event of record o showed and sent is the actor's own: a
\* template of the actor's tree, the actor's tree as the export, a send to
\* the actor's channel, and no namespace of another actor in a dump.
OnlyOwnShown(w, o) ==
    /\ ( o.handler \in { "choose_name", "tpl_preview", "tpl_send" } /\ Len(o.shown) = 3 ) =>
           TreeHas(tpls_of(w, o.uid), o.shown[1], o.shown[2], o.shown[3])
    /\ ( o.handler = "m_export" /\ o.resp = "exported" ) =>
           JsonLoads(o.shown) = << tpls_of(w, o.uid) >>
    /\ \A i \in 1..Len(o.sends) : o.sends[i].chat = ChannelOf(w, o.uid)
    /\ o.handler = "show_storage" =>
           \A b \in Actors \ { o.uid } : \A i \in 1..Len(o.shown) :
               o.shown[i] # JsonString(Str(b))

\* C24: templates and channel bindings are private per actor.  Every event
\* of an actor (browsing, preview, send, save, delete, export, import,
\* binding, unbinding, a command) leaves the tree and the binding of every
\* other actor unchanged, and shows, sends and exports only what is under
\* the actor's own namespace.
C24_PartsArePrivate ==
    [][ out'.uid \in Actors => OthersUntouched(out') /\ OnlyOwnShown(World, out') ]_vars

(***************************************************************************)
(* The start: load, migration, the admins                                  *)
(***************************************************************************)

Sections == { "admins", "channels", "channel_titles", "templates" }

\* The step is the load of the start.
Loads == boot.pc = "load" /\ boot'.pc = "migrate"

\* C25: load never fails and gives a whole document.  For a missing file,
\* a file that does not parse, a file whose root is no object and an
\* object that lacks sections, the document loaded has the sections
\* admins, channels, channel_titles and templates: a section of the file as
\* the file has it, a missing one as an empty container.
C25_LoadBackfills ==
    [][ Loads =>
          /\ Sections \subseteq DOMAIN storage'
          /\ \A k \in Sections :
                storage'[k] =
                    IF disk.kind = "json" /\ k \in DOMAIN disk.doc THEN disk.doc[k]
                    ELSE IF k = "admins" THEN <<>> ELSE EmptyDict ]_vars

\* An object that had its admins and lacked its templates has been loaded.
C25_Witness ==
    /\ boot.pc = "migrate"
    /\ disk.kind = "json"
    /\ DOMAIN disk.doc = { "admins" }
    /\ storage.admins = << AdminUser >>
    /\ storage.templates = EmptyDict

\* C26: a file that does not parse at the start is left as it is, by the
\* load and by the rest of the start (migration, the admins).
C26_CorruptFileIsKept ==
    [][ disk.kind = "corrupt" => disk' = disk ]_vars

\* A key that is the numeral of a user id, as str(uid) writes it.
IsActorKey(k) == IsDigit(LStripChar(k, "-")) /\ (Len(k) = 1 \/ CharAt(k, 1) # "0")

\* The step is the migration of the start.
Migrates == boot.pc = "migrate" /\ boot'.pc = "seed"

\* C27: the migration wraps a templates section that is not empty and has
\* a key that is no actor id under one key, the owner's id or "0" when no
\* owner is configured, with the legacy tree as it was, and saves the
\* document at once; a section that is empty or whose keys are all actor
\* ids is left as it is.
C27_MigrationWrapsLegacyOnly ==
    [][ Migrates =>
          LET tpls == storage.templates
              ns == IF OWNER_ID # 0 THEN Str(OWNER_ID) ELSE "0"
          IN  IF \A i \in 1..Len(tpls.items) : IsActorKey(tpls.items[i].k)
              THEN storage' = storage /\ disk' = disk
              ELSE /\ storage' = [storage EXCEPT !.templates = OneDict(ns, tpls)]
                   /\ disk' = FileDoc(storage') ]_vars

(***************************************************************************)
(* The listings                                                            *)
(*                                                                         *)
(* The admin builds templates whose games, cheats and names differ in      *)
(* their case only, in either order.                                       *)
(***************************************************************************)

InitListing ==
    /\ scenario = "listing"
    /\ OWNER_ID = OwnerUser
    /\ storage = InitStorage(FALSE, EmptyDict)
    /\ disk = FileDoc(storage)
    /\ boot = Booted
    /\ fs = IdleFs
    /\ IdleBot

SpecListing == InitListing /\ [][Next]_vars

\* The orders in which the keys of a dictionary may have been inserted.
Orders(keys) ==
    { q \in [1..Len(keys) -> { keys[i] : i \in 1..Len(keys) }] :
        \A i, j \in 1..Len(keys) : i # j => q[i] # q[j] }

\* The listing l holds each of the keys once, in nondecreasing order of
\* their lower case.
ProperListing(l, keys) ==
    /\ Len(l) = Len(keys)
    /\ { l[i] : i \in 1..Len(l) } = { keys[i] : i \in 1..Len(keys) }
    /\ \A i, j \in 1..Len(l) : i < j => ~StrLess(Lower(l[j]), Lower(l[i]))

\* The listing of the keys is the same whatever their order of insertion.
ListedAlike(keys) == \A q \in Orders(keys) : SortedByLower(q) = SortedByLower(keys)

\* C28: each listing, of the games of a user, of the cheats of a game and
\* of the names of a cheat, gives every key of its level once, in
\* nondecreasing order without regard to case, and depends on the set of
\* the keys only: the same keys inserted in another order, keys that
\* differ in case only among them, are listed alike.
C28_ListingsSortedAndDeterministic ==
    LET uid == AdminUser
        t == tpls_of(World, uid)
        games == list_games(World, uid)
    IN  /\ ProperListing(games, DictKeys(t))
        /\ ListedAlike(DictKeys(t))
        /\ \A gi \in 0..(Len(games) - 1) :
              LET g == DictGet(t, games[gi + 1])
                  cheats == list_cheats(World, uid, gi)
              IN  /\ ProperListing(cheats, DictKeys(g))
                  /\ ListedAlike(DictKeys(g))
                  /\ \A ci \in 0..(Len(cheats) - 1) :
                        LET c == DictGet(g, cheats[ci + 1])
                        IN  /\ ProperListing(list_names(World, uid, gi, ci), DictKeys(c))
                            /\ ListedAlike(DictKeys(c))

(***************************************************************************)
(* The pages of the delete menu                                            *)
(*                                                                         *)
(* The admin has 1, 21 or 41 templates, asks for pages of the delete menu  *)
(* and deletes the first item of a page.                                   *)
(***************************************************************************)

\* A tree of n templates n1..nn, all of the cheat x of the game a.
ManyLeaves(n) ==
    OneDict("a", OneDict("x", PyDict([i \in 1..n |-> [k |-> "n" \o Str(i), v |-> Leaf]])))

LeafCounts == { 1, PAGE_SIZE + 1, 2 * PAGE_SIZE + 1 }

InitPages ==
    /\ scenario = "pages"
    /\ OWNER_ID = OwnerUser
    /\ \E n \in LeafCounts : storage = InitStorage(FALSE, ManyLeaves(n))
    /\ disk = FileDoc(storage)
    /\ boot = Booted
    /\ fs = IdleFs
    /\ IdleBot

SpecPages == InitPages /\ [][Next]_vars

\* The page asked for by the event: the number of the token, 0 for m:del
\* and for a token without a number, the page of the item deleted.
AskedPage(o) ==
    LET n == ColonInt(o.data)
    IN  IF o.handler = "delete_template_start" \/ Len(n) = 0 THEN 0
        ELSE IF o.handler = "delete_template_page" THEN n[1]
        ELSE n[1] \div PAGE_SIZE

\* The last page of a listing of `total` items: max(0, ceil(total/20) - 1).
LastPage(total) == Max(0, (total + PAGE_SIZE - 1) \div PAGE_SIZE - 1)

\* The indexes of the item tokens and the pages of the page tokens of a
\* keyboard.
ItemIndexes(tokens) ==
    { ColonInt(t)[1] : t \in { u \in tokens : StartsWith(u, "m:delete:") } }

PageNumbers(tokens) ==
    { ColonInt(t)[1] : t \in { u \in tokens : StartsWith(u, "m:delp:") } }

\* C29: for every page asked of the delete menu, negative, zero or behind
\* the last, and every size of the listing, the page shown is the page
\* asked for clamped to 0..max(0, ceil(total/20) - 1): its item tokens are
\* the indexes of that page, all within 0..total-1, and its page tokens are
\* the neighbours of that page; so is the page shown after a deletion.
C29_DeletePageClamped ==
    [][ RendersDeleteMenu(out') =>
          LET total == Len(PendingOf(World', out'.uid))
              page == Max(0, Min(AskedPage(out'), LastPage(total)))
              shown == { t \in issued'[out'.uid] : ~Family(t) }
          IN  /\ ItemIndexes(shown) = { i \in 0..(total - 1) : i \div PAGE_SIZE = page }
              /\ PageNumbers(shown) = { q \in { page - 1, page + 1 } :
                                          q >= 0 /\ q <= LastPage(total) } ]_vars

\* A page behind the last was asked of a listing of three pages, and the
\* last page was shown.
C29_Witness ==
    /\ out.handler = "delete_template_page"
    /\ out.data = "m:delp:5"
    /\ Len(PendingOf(World, out.uid)) = 2 * PAGE_SIZE + 1
    /\ { t \in issued[out.uid] : ~Family(t) } =
          { "m:delete:40", "m:delp:1", "noop", "menu:manage" }

(***************************************************************************)
(* The photo step                                                          *)
(***************************************************************************)

\* The photo step of the draft and the photo step of the template dialogue.
PhotoSteps == { "WAIT_PHOTO", "ADD_PHOTO" }

\* The photo collected by the flow of the step for the user in world w.
PhotoHeld(w, uid, step) ==
    IF step = "WAIT_PHOTO" THEN DraftOf(w, uid).photo ELSE w.fsm[uid].data.photo

\* C30: a message that reaches a user in the photo step of the draft or of
\* the template dialogue and is neither a photo nor the skip sentinel "0"
\* leaves the user in the step with the draft and the collected fields as
\* they were, and the user is asked for the photo again; a photo is stored,
\* the sentinel stores no photo, and either one leaves the step.
C30_PhotoStepAcceptsPhotoOrSkip ==
    [][ ( out'.kind = "message" /\ fsm[out'.uid].state \in PhotoSteps ) =>
          LET uid == out'.uid
              m == EventMsg(out')
              step == fsm[uid].state
          IN  IF Len(m.photo) > 0
              THEN fsm'[uid].state # step /\ PhotoHeld(World', uid, step) = m.photo
              ELSE IF Strip(OrEmpty(m.text)) = "0"
              THEN fsm'[uid].state # step /\ PhotoHeld(World', uid, step) = <<>>
              ELSE /\ fsm'[uid].state = step
                   /\ fsm'[uid].data = fsm[uid].data
                   /\ user_drafts'[uid] = user_drafts[uid]
                   /\ out'.resp = "ask_photo_again" ]_vars

(***************************************************************************)
(* The order of the build flow                                             *)
(***************************************************************************)

\* The steps of the build flow and the order in which one follows another.
BuildSteps ==
    { "ADD_GAME", "ADD_CHEAT", "ADD_NAME", "ADD_TEXT", "ADD_PHOTO", "ADD_BTN_TEXT",
      "ADD_BTN_URL", "BTN_MENU" }

BuildOrder ==
    { << "ADD_GAME", "ADD_CHEAT" >>, << "ADD_CHEAT", "ADD_NAME" >>,
      << "ADD_NAME", "ADD_TEXT" >>, << "ADD_TEXT", "ADD_PHOTO" >>,
      << "ADD_PHOTO", "ADD_BTN_TEXT" >>, << "ADD_BTN_TEXT", "ADD_BTN_URL" >>,
      << "ADD_BTN_URL", "BTN_MENU" >>, << "BTN_MENU", "ADD_BTN_TEXT" >> }

BuildHandlers ==
    { "m_add_start", "m_add_game", "m_add_cheat", "m_add_name", "m_add_text",
      "m_add_photo", "m_btn_text", "m_btn_url", "m_btn_menu" }

\* The terminal step: mt:save from the button menu, "0" at the label prompt.
TerminalStep(o) ==
    \/ o.handler = "m_btn_menu" /\ o.data = "mt:save"
    \/ o.handler = "m_btn_text" /\ Len(o.photo) = 0 /\ Strip(o.data) = "0"

\* The step from s to t of the user stored the input of record o in the
\* field the step collects.
StepCollects(s, t, o, before, after) ==
    LET text == IF Len(o.photo) > 0 THEN "" ELSE o.data
    IN  /\ << s, t >> = << "ADD_GAME", "ADD_CHEAT" >> => after.game = << Strip(text) >>
        /\ << s, t >> = << "ADD_CHEAT", "ADD_NAME" >> => after.cheat = << Strip(text) >>
        /\ << s, t >> = << "ADD_NAME", "ADD_TEXT" >> => after.name = << Strip(text) >>
        /\ << s, t >> = << "ADD_TEXT", "ADD_PHOTO" >> => after.text = << text >>
        /\ << s, t >> = << "ADD_PHOTO", "ADD_BTN_TEXT" >> =>
              after.photo = o.photo /\ (Len(o.photo) = 0 => Strip(text) = "0")
        /\ t \notin { "ADD_GAME", NoState } =>
              /\ after.uid = before.uid
              /\ s # "ADD_GAME" => after.game = before.game
              /\ s # "ADD_CHEAT" => after.cheat = before.cheat
              /\ s # "ADD_NAME" => after.name = before.name
              /\ s # "ADD_TEXT" => after.text = before.text
              /\ s # "ADD_PHOTO" => after.photo = before.photo

\* C31: the steps of the template build flow follow one another in the
\* order game, cheat, name, text, photo, button label, button url, button
\* menu, the menu leading back to the label; each step stores its input and
\* keeps what the earlier steps collected; no step but the terminal one
\* changes the document, in memory or in the file; and the terminal step
\* writes the entry of the collected game, cheat and name with the collected
\* text and photo.
C31_BuildFlowOrder ==
    [][ LET uid == out'.uid
            s == fsm[uid].state
            t == fsm'[uid].state
        IN  /\ ( t \in BuildSteps /\ t # s ) =>
                  \/ << s, t >> \in BuildOrder
                  \/ t = "ADD_GAME" /\ out'.handler = "m_add_start"
            /\ ( s \in BuildSteps /\ out'.handler \in BuildHandlers ) =>
                  StepCollects(s, t, out', fsm[uid].data, fsm'[uid].data)
            /\ ( out'.handler \in BuildHandlers /\ ~TerminalStep(out') ) =>
                  storage' = storage /\ disk' = disk
            /\ ( out'.handler \in BuildHandlers /\ storage' # storage ) =>
                  LET data == fsm[uid].data
                  IN  /\ s \in { "ADD_BTN_TEXT", "BTN_MENU" }
                      /\ data.uid = uid
                      /\ Len(data.game) = 1 /\ Len(data.cheat) = 1
                      /\ Len(data.name) = 1 /\ Len(data.text) = 1
                      /\ EntryField(SavedEntry(storage', data), "text") = PyStr(data.text[1])
                      /\ EntryField(SavedEntry(storage', data), "photo") =
                            (IF Len(data.photo) = 0 THEN PyNone ELSE PyStr(data.photo[1])) ]_vars

(***************************************************************************)
(* Empty rows                                                              *)
(***************************************************************************)

\* The rows of the keyboard of a draft, a sequence of rows.
NoEmptyRow(rows) == \A i \in 1..Len(rows) : Len(rows[i]) > 0

\* The rows of a stored "buttons" value, a list of lists.
NoEmptyStoredRow(v) == \A i \in 1..Len(v.es) : Len(v.es[i].es) > 0

\* C32: no button matrix is committed with an empty row: the keyboard of a
\* draft handed to the transport for the channel has none, and the buttons
\* of a template that the build flow has saved have none, whatever add
\* button, add row and new row actions came before.
C32_NoEmptyRowCommitted ==
    [][ /\ out'.handler = "compose_actions" =>
              \A i \in 1..Len(out'.sends) : NoEmptyRow(out'.sends[i].buttons)
        /\ ( /\ out'.handler \in { "m_btn_menu", "m_btn_text" }
             /\ out'.resp = "template_saved" ) =>
              NoEmptyStoredRow(
                  EntryField(SavedEntry(disk'.doc, fsm[out'.uid].data), "buttons")) ]_vars

(***************************************************************************)
(* The sends                                                               *)
(*                                                                         *)
(* The admin, bound to a channel or to none, with a template or with none, *)
(* writes a draft, sends it, sends the template, tests the channel and     *)
(* unbinds it.  The owner is bound to another channel.                     *)
(***************************************************************************)

InitSends ==
    /\ scenario = "sends"
    /\ OWNER_ID = OwnerUser
    /\ \E bound \in BOOLEAN : \E tree \in { EmptyDict, TreePut(EmptyDict, "a", "x", "m", Leaf) } :
          storage = [InitStorage(bound, tree) EXCEPT
                        !.channels = DictSet(@, Str(OwnerUser), PyInt(NewsId))]
    /\ disk = FileDoc(storage)
    /\ boot = Booted
    /\ fs = IdleFs
    /\ IdleBot

SpecSends == InitSends /\ [][Next]_vars

\* The event of record o is a send action: the draft, a template, the test.
SendAction(o) ==
    \/ o.handler = "compose_actions" /\ o.data = "compose:send"
    \/ o.handler \in { "tpl_send", "set_test" }

\* C33: a send action, of the draft, of a template or of the test message,
\* calls the transport at most once, and only for the channel bound to the
\* acting user at that time; a user without a channel sends nothing.  When
\* the transport refuses, the user is told of the error, no audit line is
\* written, and the draft and the document stay as they were.
C33_OneSendToOwnChannel ==
    [][ SendAction(out') =>
          LET uid == out'.uid
              ch == ChannelOf(World, uid)
          IN  /\ Len(out'.sends) <= 1
              /\ \A i \in 1..Len(out'.sends) : ch # 0 /\ out'.sends[i].chat = ch
              /\ ch = 0 => out'.sends = <<>>
              /\ \A i \in 1..Len(out'.sends) : ~out'.sends[i].ok =>
                    /\ out'.resp = "send_error"
                    /\ audit' = audit
                    /\ DraftOf(World', uid) = DraftOf(World, uid)
                    /\ storage' = storage
                    /\ disk' = disk ]_vars

\* The transport refused the template sent to the channel of the admin.
C33_Witness ==
    /\ out.handler = "tpl_send"
    /\ out.uid = AdminUser
    /\ Len(out.sends) = 1
    /\ ~out.sends[1].ok
    /\ out.sends[1].chat = ChannelId

(***************************************************************************)
(* The tokens of the menus                                                 *)
(***************************************************************************)

\* The size of callback data the transport takes, in bytes.
TokenBudget == 64

\* The tokens the browse, view and delete menus carry without an index.
PlainTokens == { "menu:back", "tpl:back:games", "noop", "menu:manage" }

\* The prefixes of the indexed tokens, each with its separator and the
\* number of its indices.
IndexedKinds ==
    { << "tpl:g#", "#", 1 >>, << "tpl:back:cheats#", "#", 1 >>,
      << "tpl:c#", "#", 2 >>, << "tpl:back:templates#", "#", 2 >>,
      << "tpl:n#", "#", 3 >>, << "tpl:prev#", "#", 3 >>, << "tpl:send#", "#", 3 >>,
      << "m:delete:", ":", 1 >>, << "m:delp:", ":", 1 >> }

\* The token is a fixed prefix followed by its decimal indices, none with a
\* sign, and is within the budget.
IndexToken(t) ==
    /\ Len(t) <= TokenBudget
    /\ \/ t \in PlainTokens
       \/ \E kind \in IndexedKinds :
             /\ StartsWith(t, kind[1])
             /\ LET fields == Split(SubSeq(t, Len(kind[1]) + 1, Len(t)), kind[2])
                IN  /\ Len(fields) = kind[3]
                    /\ \A i \in 1..Len(fields) : IsDigit(fields[i])

\* C34: every token on a browse menu, a template view or a delete menu is
\* a fixed prefix followed by non-negative decimal indices, separated by #
\* or :, and never a name; with listings of fewer than 10^9 entries it is at
\* most 64 bytes long.
C34_TokensAreIndexTokens ==
    \A uid \in Users : \A t \in issued[uid] : IndexToken(t)

(***************************************************************************)
(* What a delete token deletes                                             *)
(***************************************************************************)

\* C35: a delete token removes the template that the button carrying it
\* showed, or nothing: whichever of the delete menus shown to the user the
\* token is pressed on, the current one or an older one, and also when it is
\* delivered a second time, no other template of the user goes.
C35_DeleteTokenHitsItsLabel ==
    [][ out'.handler = "delete_template_confirm" =>
          LET uid == out'.uid
              removed == LeafPaths(tpls_of(World, uid)) \ LeafPaths(tpls_of(World', uid))
              labels == { b[2] : b \in { q \in session[uid].listed : q[1] = out'.data } }
          IN  \A p \in removed : labels # {} /\ \A l \in labels : p = l ]_vars

(***************************************************************************)
(* A removed admin                                                         *)
(*                                                                         *)
(* The owner removes and adds admins while the admin and the stranger use  *)
(* the bot, and the process is stopped and started again.                  *)
(***************************************************************************)

\* The process is stopped and started again: the FSM storage, the drafts and
\* the pending deletes are those of a new process; the document is loaded,
\* migrated and seeded with OWNER_ID and ADMIN_IDS, and saved.  The audit
\* log is a file and stays, and so do the keyboards the users were shown.
StopAndStart ==
    /\ boot.pc = "running"
    /\ boot.boots < MaxBoots
    /\ LET w == seed_admins(migrate_templates_per_user(
                    [World EXCEPT !.storage = load_storage(disk)]))
       IN  /\ storage' = w.storage
           /\ disk' = w.disk
    /\ boot' = [boot EXCEPT !.boots = @ + 1]
    /\ fsm' = [u \in Users |-> ClearedFsm]
    /\ user_drafts' = [u \in Users |-> <<>>]
    /\ pending_deletes' = [u \in Users |-> <<>>]
    /\ UNCHANGED << OWNER_ID, audit, issued, out, saveFailures, fs, scenario, session,
                    tasks >>

InitRemoval == Init /\ scenario = "roster"

NextRemoval == UserCallback \/ UserMessage \/ StopAndStart

SpecRemoval == InitRemoval /\ [][NextRemoval]_vars

\* The last line of the audit log says that the owner removed the user from
\* the admins: the removal has completed and the user has not been added
\* since.
RemovedLast(uid) ==
    /\ Len(audit.tail) > 0
    /\ audit.tail[Len(audit.tail)].act = "del_admin"
    /\ audit.tail[Len(audit.tail)].arg = << Str(uid) >>

\* C36: after the owner has removed from the admins a user who is not the
\* owner, and until that user is added again, no event of the user is
\* admitted, in whatever step the user was and whatever draft the user
\* holds: no handler runs, nothing changes, and the event that matches a
\* handler is answered with the denial.  The owner who has removed the
\* owner's own id is still admitted.
C36_RemovedAdminStaysOut ==
    [][ ( boot' = boot /\ RemovedLast(out'.uid) ) =>
          IF out'.uid = OWNER_ID
          THEN out'.handler # "AdminGuard"
          ELSE /\ UNCHANGED Kept
               /\ out'.sends = <<>>
               /\ IF MatchedHandler(World, out') = "none"
                  THEN out'.handler = "none"
                  ELSE out'.handler = "AdminGuard" /\ out'.resp = "denied" ]_vars

\* The audit lines of the actions that save the document, and of those that
\* send to a channel.
SavedActs ==
    { "save_template", "delete_template", "import", "bind_channel",
      "unbind_channel", "add_admin", "del_admin" }

SentActs == { "send_draft", "send_template" }

\* The answers of an action that was denied, that was rejected by a
\* validation, or that failed in its save or in its send.
Rejections ==
    { "denied", "owner_only", "no_channel", "no_templates", "need_number",
      "malformed", "bad_url", "not_found", "not_a_forward", "not_a_channel",
      "no_such_admin", "no_admins", "need_username", "need_document",
      "get_channel_failed", "not_channel_admin", "bad_index", "bad_format",
      "import_error", "send_error", "ask_photo_again" }

Refused(o) ==
    \/ o.handler \in { "AdminGuard", "none" }
    \/ o.resp \in Rejections
    \/ StartsWith(o.resp, "unhandled:")
    \/ \E i \in 1..Len(o.sends) : ~o.sends[i].ok

====
